---- MODULE Spec2Model ----
(***************************************************************************)
(* miniget: one download session (the function Miniget of the TypeScript   *)
(* source) as a state machine.  The session's closure variables, the       *)
(* listeners it registers, its timers and the events it emits on the       *)
(* returned stream are the state; the transport (node's http client) and   *)
(* the caller are the environment.                                         *)
(*                                                                         *)
(* Environment assumptions (node's http semantics, outside the source):    *)
(*  - a request gets at most one response; after its 'error' or 'close'    *)
(*    event a request emits nothing more;                                  *)
(*  - a response whose request closes or errors may still deliver what it  *)
(*    has buffered and end (node 10 and 12 emit the request's 'close'      *)
(*    before the response's 'end'); it does so before any timer fires; a   *)
(*    response that emitted 'error' or was destroyed emits no more data;   *)
(*  - the server honours the Range header it is sent and reports the true  *)
(*    length of the body it is about to send;                              *)
(*  - an event is delivered to the handlers registered for it at that      *)
(*    moment, in one step (handlers are synchronous).                      *)
(***************************************************************************)
EXTENDS Integers, Sequences, FiniteSets, TLC

(***************************************************************************)
(* Bounds of the model.                                                    *)
(***************************************************************************)
\* the sessions tried have maxRedirects + maxRetries + maxReconnects at most this
MaxBudget == 2
\* number of bytes of the resource
ResLen == 2
\* the caller calls abort() at most this many times
MaxAborts == 2
\* a Content-Encoding header lists at most this many encodings
MaxEncodings == 2

(***************************************************************************)
(* Values.                                                                 *)
(***************************************************************************)
\* the result of parseInt on a missing or malformed value; also `undefined`
NaN == -1
\* a header that is absent
NoHeader == -1

\* JavaScript truthiness of a number: 0 and NaN are falsy
Truthy(n) == n > 0

Min(a, b) == IF a < b THEN a ELSE b
Max(a, b) == IF a > b THEN a ELSE b

\* parseInt(h, 10) of a numeric header value
parseInt(h) == IF h = NoHeader THEN NaN ELSE h

redirectStatusCodes == {301, 302, 303, 307, 308}
retryStatusCodes == {429, 503}

\* the keys of httpLibs, and `undefined` where a protocol is expected
httpLibs == {"http:", "https:"}
NoProtocol == ""

\* urlParse(url).protocol
protocol(u) == IF u \in {"http://a", "http://b"} THEN "http:" ELSE NoProtocol

\* httpLib taken for found whatever the url
httpLib_Unchecked(u) == TRUE

\* urlParse(url) yields a protocol that httpLibs knows
httpLib(u) == protocol(u) \in httpLibs

\* what a call of opts.transform does: it throws, or it returns a falsy
\* value, or an object whose protocol is `p` (NoProtocol: it has none)
Thrown == [kind |-> "throws", protocol |-> NoProtocol]
Falsy == [kind |-> "falsy", protocol |-> NoProtocol]
Descriptor(p) == [kind |-> "object", protocol |-> p]
\* the error a transform throws
TransformError == [message |-> "hello", statusCode |-> NaN]

\* errors a request emits (no status code), and the one a response emits
RequestErrors == {"ENOTFOUND", "ECONNRESET"}
ResponseErrors == {"aborted"}
\* Retry-After header values, in seconds
RetryAfterValues == {NoHeader, 5}

\* the caller's Range header: absent, malformed, or bytes=<start>-<end>
NoRange == [kind |-> "none", start |-> 0, end |-> NaN]
BadRange == [kind |-> "bad", start |-> 0, end |-> NaN]
Bytes(s, e) == [kind |-> "bytes", start |-> s, end |-> e]
RangeHeaders == {NoRange, BadRange, Bytes(1, NaN)}

\* a string of a header, as the sequence of its parts: the names of
\* encodings, and the characters "," and " "
Encodings == {"gzip", "deflate", "br"}
\* Content-Encoding absent (or empty: both are falsy)
NoEncoding == <<>>

\* the first index from `from` on at which `sep` occurs in `str`, 0 if none
RECURSIVE indexOf(_, _, _)
indexOf(str, sep, from) ==
  IF from + Len(sep) - 1 > Len(str) THEN 0
  ELSE IF SubSeq(str, from, from + Len(sep) - 1) = sep THEN from
  ELSE indexOf(str, sep, from + 1)

\* str.split(sep): the pieces of `str` between the occurrences of `sep`
RECURSIVE split(_, _)
split(str, sep) ==
  LET i == indexOf(str, sep, 1)
  IN IF i = 0 THEN <<str>>
     ELSE <<SubSeq(str, 1, i - 1)>> \o split(SubSeq(str, i + Len(sep), Len(str)), sep)

\* array.reverse()
reverse(array) == [i \in 1..Len(array) |-> array[Len(array) + 1 - i]]

\* opts.acceptEncoding: not given, or an object with a factory per name
NoRegistry == [given |-> FALSE, names |-> {}]
Registry(names) == [given |-> TRUE, names |-> names]

\* opts.acceptEncoding[enc] is a factory: enc is one of the names
factory(registry, enc) == Len(enc) = 1 /\ enc[1] \in registry.names

\* the stages piped after the response, in order: one for each piece of
\* the header, last piece first, whose name has a factory
RECURSIVE stages(_, _)
stages(registry, encs) ==
  IF encs = <<>> THEN <<>>
  ELSE (IF factory(registry, Head(encs)) THEN <<Head(encs)[1]>> ELSE <<>>)
       \o stages(registry, Tail(encs))

\* the decoders of a response: none without opts.acceptEncoding or without
\* a Content-Encoding header
decoderChain(registry, contentEncoding) ==
  IF registry.given /\ contentEncoding # NoEncoding
  THEN stages(registry, reverse(split(contentEncoding, <<",", " ">>)))
  ELSE <<>>

\* what a decoder makes of a chunk: the encoded byte at offset c becomes
\* the decoded bytes at the offsets 2c and 2c + 1 (decoding changes the
\* number of bytes)
decode(chunk) ==
  [j \in 1..(2 * Len(chunk)) |-> 2 * chunk[(j + 1) \div 2] + ((j + 1) % 2)]

\* what the stages of `chain`, one piped into the next, make of a chunk
RECURSIVE decoded(_, _)
decoded(chain, chunk) ==
  IF chain = <<>> THEN chunk ELSE decoded(Tail(chain), decode(chunk))

\* backoff: the second retry is capped by max
Backoff == [inc |-> 100, max |-> 150]

\* the defaults with maxRedirects: 2
defaultOptions_TwoRedirects ==
  [maxRedirects |-> 2, maxRetries |-> 2, maxReconnects |-> 0,
   backoff |-> [inc |-> 100, max |-> 10000]]

\* Miniget.defaultOptions
defaultOptions ==
  [maxRedirects |-> 10, maxRetries |-> 2, maxReconnects |-> 0,
   backoff |-> [inc |-> 100, max |-> 10000]]

\* the caller gives no options: a GET without headers
NoOptions ==
  [method |-> "GET", Range |-> NoRange, acceptEncoding |-> NoRegistry,
   transform |-> FALSE]

\* Object.assign({}, Miniget.defaultOptions, options)
assign(defaults, options) ==
  [maxRedirects |-> IF "maxRedirects" \in DOMAIN options
                    THEN options.maxRedirects ELSE defaults.maxRedirects,
   maxRetries |-> IF "maxRetries" \in DOMAIN options
                  THEN options.maxRetries ELSE defaults.maxRetries,
   maxReconnects |-> IF "maxReconnects" \in DOMAIN options
                     THEN options.maxReconnects ELSE defaults.maxReconnects,
   backoff |-> IF "backoff" \in DOMAIN options THEN options.backoff ELSE defaults.backoff,
   method |-> options.method, Range |-> options.Range,
   acceptEncoding |-> options.acceptEncoding, transform |-> options.transform]

\* the options of the callers tried, besides none: every split of the
\* budget for a plain GET, a session that both retries and reconnects
\* doing each once; a ranged GET and a HEAD for one reconnect
AllOptions ==
  [maxRedirects : 0..MaxBudget, maxRetries : 0..MaxBudget,
   maxReconnects : 0..MaxBudget, backoff : {Backoff},
   method : {"GET", "HEAD"}, Range : RangeHeaders, acceptEncoding : {NoRegistry},
   transform : {FALSE}]
Options ==
  {o \in AllOptions :
     /\ o.maxRedirects + o.maxRetries + o.maxReconnects <= MaxBudget
     /\ o.maxRetries > 0 /\ o.maxReconnects > 0 => o.maxRetries = 1 /\ o.maxReconnects = 1
     /\ \/ o.method = "GET" /\ o.Range = NoRange
        \/ o.maxRedirects = 0 /\ o.maxRetries <= 1 /\ o.maxReconnects = 1}

\* an error object: MinigetError(message, statusCode) or a transport error
MinigetError(message, statusCode) == [message |-> message, statusCode |-> statusCode]
\* `undefined` where an error is expected
undefined == MinigetError("", NaN)
\* new Miniget.MinigetError(`Status code: ${code}`, code)
StatusError(code) == MinigetError("Status code", code)

\* a timer handle that is not set
NoTimer == [kind |-> "none", ms |-> 0]

VARIABLES
  opts,                 \* the merged options of the session
  url,                  \* the current target URL
  activeRequest,        \* id of the request held, 0 for null
  activeResponse,       \* id of the response held, 0 for null
  activeDecodedStream,  \* id of the decoded stream held, 0 for null
  decoders,             \* the decoders piped after the response last streamed
  redirects,
  retries,
  retryTimeout,         \* the handle of the last retry or reconnect timer
  reconnects,
  contentLength,
  acceptRanges,
  downloaded,
  destroyArgs,          \* "undefined" or "set"
  destroyed,            \* stream.destroyed
  aborted,              \* stream.aborted
  ended,                \* stream.end() was called: the stream emits 'end'
  output,               \* offsets of the bytes written to the stream, in order
  listeners,            \* handlers registered on requests and responses
  pipes,                \* responses piped into the stream
  timers,               \* pending timers
  emitted,              \* number of events emitted on the stream, per event
  last,                 \* the arguments of the last event emitted, per event
  crashed,              \* an exception escaped a callback
  turn,                 \* "caller" while the code that called Miniget runs, then "loop"
  text,                 \* the promise of stream.text() and the body it collects
  net                   \* the transport: one record per request created

vars == <<opts, url, activeRequest, activeResponse, activeDecodedStream, decoders,
          redirects, retries, retryTimeout, reconnects, contentLength,
          acceptRanges, downloaded, destroyArgs, destroyed, aborted, ended,
          output, listeners, pipes, timers, emitted, last, crashed, turn, text, net>>

\* the mutable state as one record, so that the handlers compose as functions
S ==
  [url |-> url, activeRequest |-> activeRequest, activeResponse |-> activeResponse,
   activeDecodedStream |-> activeDecodedStream, decoders |-> decoders,
   redirects |-> redirects,
   retries |-> retries, retryTimeout |-> retryTimeout, reconnects |-> reconnects,
   contentLength |-> contentLength, acceptRanges |-> acceptRanges,
   downloaded |-> downloaded, destroyArgs |-> destroyArgs, destroyed |-> destroyed,
   aborted |-> aborted, ended |-> ended, output |-> output, listeners |-> listeners, pipes |-> pipes,
   timers |-> timers, emitted |-> emitted, last |-> last, crashed |-> crashed,
   text |-> text, net |-> net]

\* a request as the transport sees it: req is "open", "errored" or "closed";
\* res is "none" (no response yet), "ignored" (a response whose body the
\* session does not read), "open", "ended", "errored" or "destroyed";
\* chain is the decoders piped after the response, and wired the stages of
\* the chain, by their place in it, whose 'error' would call onError
NewRequest(u, lib, keys, range) ==
  [req |-> "open", destroyed |-> FALSE, res |-> "none", url |-> u, lib |-> lib,
   keys |-> keys, range |-> range, len |-> 0, pos |-> 0, chain |-> <<>>, wired |-> {}]

\* a request and response that will deliver no event any more
Dead == [req |-> "closed", destroyed |-> FALSE, res |-> "ignored", url |-> "",
         lib |-> NoProtocol, keys |-> {}, range |-> NoRange, len |-> 0, pos |-> 0,
         chain |-> <<>>, wired |-> {}]

\* a handler registered on an object: obj is "req" or "res", of its attempt
L(obj, of, event) == [obj |-> obj, of |-> of, event |-> event]

\* the request `id` or its response can still deliver an event to the session
Alive(s, id) ==
  \/ s.net[id].res \in {"open", "ended"} /\ s.net[id].req = "open"
  \/ /\ s.net[id].req = "open"
     /\ \/ s.net[id].res = "none"
        \/ L("req", id, "error") \in s.listeners
        \/ L("req", id, "close") \in s.listeners
  \/ s.net[id].wired # {}

\* the transport forgets the requests that are over, with their handlers
\* and pipes: nothing can call or feed them any more
Forget(s) ==
  LET dead == {id \in 1..Len(s.net) : ~Alive(s, id)}
  IN [s EXCEPT !.net = [id \in 1..Len(s.net) |-> IF id \in dead THEN Dead ELSE s.net[id]],
               !.listeners = {l \in @ : l.of \notin dead},
               !.pipes = {p \in @ : p.src \notin dead}]

Commit(s0) ==
  \E s \in {Forget(s0)} :
     /\ url' = s.url
     /\ activeRequest' = s.activeRequest
     /\ activeResponse' = s.activeResponse
     /\ activeDecodedStream' = s.activeDecodedStream
     /\ decoders' = s.decoders
     /\ redirects' = s.redirects
     /\ retries' = s.retries
     /\ retryTimeout' = s.retryTimeout
     /\ reconnects' = s.reconnects
     /\ contentLength' = s.contentLength
     /\ acceptRanges' = s.acceptRanges
     /\ downloaded' = s.downloaded
     /\ destroyArgs' = s.destroyArgs
     /\ destroyed' = s.destroyed
     /\ aborted' = s.aborted
     /\ ended' = s.ended
     /\ output' = s.output
     /\ listeners' = s.listeners
     /\ pipes' = s.pipes
     /\ timers' = s.timers
     /\ emitted' = s.emitted
     /\ last' = s.last
     /\ crashed' = s.crashed
     /\ text' = s.text
     /\ net' = s.net
     /\ UNCHANGED opts

\* a callback of the event loop leaves the session in the state s
Run(s) == Commit(s) /\ turn' = "loop"

\* a call by the caller leaves the session in the state s
Call(s) == Commit(s) /\ UNCHANGED turn

(***************************************************************************)
(* The stream and the runtime.                                             *)
(***************************************************************************)
\* stream.text() was not called: no promise, no listener
NoText == [called |-> FALSE, body |-> <<>>, state |-> "none", value |-> <<>>,
           reason |-> undefined]

\* resolve(body) and reject(err) of the promise of stream.text(): a promise
\* that is settled stays as it is
resolve(promise, body) ==
  IF promise.state = "pending"
  THEN [promise EXCEPT !.state = "resolved", !.value = body] ELSE promise
reject(promise, err) ==
  IF promise.state = "pending"
  THEN [promise EXCEPT !.state = "rejected", !.reason = err] ELSE promise

\* stream.emit(event, arg): the listeners of stream.text(), if it was
\* called, are those of 'end' and 'error' (and of 'data', see streamWrite)
emit(s, event, arg) ==
  [s EXCEPT !.emitted[event] = @ + 1, !.last[event] = arg,
            !.text = IF ~@.called THEN @
                     ELSE IF event = "end" THEN resolve(@, @.body)
                     ELSE IF event = "error" THEN reject(@, arg)
                     ELSE @]

\* stream.end(): the PassThrough emits 'end' once, and not when destroyed
streamEnd(s) ==
  IF s.ended \/ s.destroyed THEN s
  ELSE emit([s EXCEPT !.ended = TRUE], "end", 0)

\* a chunk piped into the stream; nothing is written once ended or destroyed
streamWrite(s, chunk) ==
  IF s.ended \/ s.destroyed THEN s
  ELSE [s EXCEPT !.output = @ \o chunk,
                 !.text.body = IF s.text.called THEN @ \o chunk ELSE @]

\* setTimeout(doDownload, ms)
setTimeout(s, kind, ms) ==
  [s EXCEPT !.timers = @ \cup {[kind |-> kind, ms |-> ms]}]

\* retryTimeout = setTimeout(doDownload, ms)
setRetryTimeout(s, kind, ms) ==
  [setTimeout(s, kind, ms) EXCEPT !.retryTimeout = [kind |-> kind, ms |-> ms]]

(***************************************************************************)
(* The session: Miniget(url, options).                                     *)
(***************************************************************************)
\* the start of the caller's range parsed only when the header gives an end
rangeStart_NeedsEnd ==
  IF opts.Range.kind = "bytes" /\ opts.Range.end # NaN
  THEN opts.Range.start ELSE 0

\* the range of the caller's Range header, parsed once at construction
rangeStart == IF opts.Range.kind = "bytes" THEN opts.Range.start ELSE 0
rangeEnd == IF opts.Range.kind = "bytes" THEN opts.Range.end ELSE NaN

\* downloadHasStarted never true: every failure takes the retry branch
downloadHasStarted_Never(s) == FALSE

downloadHasStarted(s) == s.activeDecodedStream # 0 /\ s.downloaded > 0

\* downloadComplete true only with range resume and every byte received
downloadComplete_NeedsRanges(s) == s.acceptRanges /\ s.downloaded = s.contentLength

\* downloadComplete without its comparison of the byte count
downloadComplete_Always(s) == TRUE

downloadComplete(s) == ~s.acceptRanges \/ s.downloaded = s.contentLength

\* reconnect with the delay of a retry: growing with the count
reconnect_ScalesWithCount(s, err) ==
  LET s1 == [s EXCEPT !.activeDecodedStream = 0, !.retries = 0]
      ms == Min(s1.reconnects * opts.backoff.inc, opts.backoff.max)
  IN emit(setRetryTimeout(s1, "reconnect", ms), "reconnect", s1.reconnects)

reconnect(s, err) ==
  LET s1 == [s EXCEPT !.activeDecodedStream = 0, !.retries = 0]
      ms == Min(opts.backoff.inc, opts.backoff.max)
  IN emit(setRetryTimeout(s1, "reconnect", ms), "reconnect", s1.reconnects)

\* the result of a handler that returns a boolean: the state and the value
Ret(s, ret) == [s |-> s, ret |-> ret]

\* reconnectIfEndedEarly with ++reconnects < opts.maxReconnects
reconnectIfEndedEarly_PreIncrement(s, err) ==
  IF opts.method # "HEAD" /\ ~downloadComplete(s)
  THEN LET s1 == [s EXCEPT !.reconnects = @ + 1]
       IN IF s1.reconnects < opts.maxReconnects
          THEN Ret(reconnect(s1, err), TRUE)
          ELSE Ret(s1, FALSE)
  ELSE Ret(s, FALSE)

\* reconnectIfEndedEarly with reconnects++ <= opts.maxReconnects
reconnectIfEndedEarly_OffByOne(s, err) ==
  IF opts.method # "HEAD" /\ ~downloadComplete(s)
  THEN LET s1 == [s EXCEPT !.reconnects = @ + 1]
       IN IF s.reconnects <= opts.maxReconnects
          THEN Ret(reconnect(s1, err), TRUE)
          ELSE Ret(s1, FALSE)
  ELSE Ret(s, FALSE)

reconnectIfEndedEarly(s, err) ==
  IF opts.method # "HEAD" /\ ~downloadComplete(s)
  THEN LET s1 == [s EXCEPT !.reconnects = @ + 1]
       IN IF s.reconnects < opts.maxReconnects
          THEN Ret(reconnect(s1, err), TRUE)
          ELSE Ret(s1, FALSE)
  ELSE Ret(s, FALSE)

\* retryRequest with ++retries < opts.maxRetries
retryRequest_PreIncrement(s, retryOptions) ==
  IF s.destroyed THEN Ret(s, FALSE)
  ELSE IF downloadHasStarted(s) THEN reconnectIfEndedEarly(s, retryOptions.err)
  ELSE IF ~Truthy(retryOptions.statusCode) \/ retryOptions.err.message = "ENOTFOUND"
  THEN LET s1 == [s EXCEPT !.retries = @ + 1]
           ms == IF Truthy(retryOptions.retryAfter)
                 THEN retryOptions.retryAfter
                 ELSE Min(s1.retries * opts.backoff.inc, opts.backoff.max)
       IN IF s1.retries < opts.maxRetries
          THEN Ret(emit(setRetryTimeout(s1, "retry", ms), "retry", s1.retries), TRUE)
          ELSE Ret(s1, FALSE)
  ELSE Ret(s, FALSE)

\* retryRequest with retries++ <= opts.maxRetries
retryRequest_OffByOne(s, retryOptions) ==
  IF s.destroyed THEN Ret(s, FALSE)
  ELSE IF downloadHasStarted(s) THEN reconnectIfEndedEarly(s, retryOptions.err)
  ELSE IF ~Truthy(retryOptions.statusCode) \/ retryOptions.err.message = "ENOTFOUND"
  THEN LET s1 == [s EXCEPT !.retries = @ + 1]
           ms == IF Truthy(retryOptions.retryAfter)
                 THEN retryOptions.retryAfter
                 ELSE Min(s1.retries * opts.backoff.inc, opts.backoff.max)
       IN IF s.retries <= opts.maxRetries
          THEN Ret(emit(setRetryTimeout(s1, "retry", ms), "retry", s1.retries), TRUE)
          ELSE Ret(s1, FALSE)
  ELSE Ret(s, FALSE)

\* retryRequest without the test of retryOptions.statusCode
retryRequest_IgnoresStatusCode(s, retryOptions) ==
  IF s.destroyed THEN Ret(s, FALSE)
  ELSE IF downloadHasStarted(s) THEN reconnectIfEndedEarly(s, retryOptions.err)
  ELSE LET s1 == [s EXCEPT !.retries = @ + 1]
           ms == IF Truthy(retryOptions.retryAfter)
                 THEN retryOptions.retryAfter
                 ELSE Min(s1.retries * opts.backoff.inc, opts.backoff.max)
       IN IF s.retries < opts.maxRetries
          THEN Ret(emit(setRetryTimeout(s1, "retry", ms), "retry", s1.retries), TRUE)
          ELSE Ret(s1, FALSE)

\* retryOptions: statusCode, err, retryAfter (each possibly undefined)
RetryOptions(statusCode, err, retryAfter) ==
  [statusCode |-> statusCode, err |-> err, retryAfter |-> retryAfter]

retryRequest(s, retryOptions) ==
  IF s.destroyed THEN Ret(s, FALSE)
  ELSE IF downloadHasStarted(s) THEN reconnectIfEndedEarly(s, retryOptions.err)
  ELSE IF ~Truthy(retryOptions.statusCode) \/ retryOptions.err.message = "ENOTFOUND"
  THEN LET s1 == [s EXCEPT !.retries = @ + 1]
           ms == IF Truthy(retryOptions.retryAfter)
                 THEN retryOptions.retryAfter
                 ELSE Min(s1.retries * opts.backoff.inc, opts.backoff.max)
       IN IF s.retries < opts.maxRetries
          THEN Ret(emit(setRetryTimeout(s1, "retry", ms), "retry", s1.retries), TRUE)
          ELSE Ret(s1, FALSE)
  ELSE Ret(s, FALSE)

\* cleanup() of the attempt `id`: its handlers are taken off the objects the
\* session holds at that moment
cleanup(s, id) ==
  LET last_ == Len(s.net[id].chain)
  IN [s EXCEPT !.listeners = @ \
        ((IF s.activeRequest = id
          THEN {L("req", id, "error"), L("req", id, "close")} ELSE {})
         \cup (IF s.activeResponse = id
               THEN {L("res", id, "data"), L("res", id, "error")} ELSE {})
         \cup (IF s.activeDecodedStream = id
               THEN {L("res", id, "end")}
                    \cup (IF last_ = 0 THEN {L("res", id, "error")} ELSE {})
               ELSE {})),
               !.net[id].wired = IF s.activeDecodedStream = id THEN @ \ {last_} ELSE @]

onError(s, id, err, statusCode) ==
  LET r == retryRequest(cleanup(s, id), RetryOptions(statusCode, err, NaN))
  IN IF ~r.ret
     THEN emit(r.s, "error", err)
     ELSE [r.s EXCEPT !.listeners = @ \
             (IF r.s.activeRequest = id THEN {L("req", id, "close")} ELSE {})]

onRequestClose(s, id) ==
  retryRequest(cleanup(s, id), RetryOptions(NaN, undefined, NaN)).s

onData(s, length) == [s EXCEPT !.downloaded = @ + length]

\* onData listening to the decoded stream: activeDecodedStream.on('data', onData)
decodedOnData(s, id, chunk) == onData(s, Len(decoded(s.net[id].chain, chunk)))

\* res.on('data', onData): onData is called with the chunks of the response
\* `id`, as the transport delivers them
resOnData(s, id, chunk) == onData(s, Len(chunk))

\* onEnd ending the stream whatever reconnectIfEndedEarly returns
onEnd_AlwaysEnds(s, id) ==
  streamEnd(reconnectIfEndedEarly(cleanup(s, id), undefined).s)

onEnd(s, id) ==
  LET r == reconnectIfEndedEarly(cleanup(s, id), undefined)
  IN IF ~r.ret THEN streamEnd(r.s) ELSE r.s

\* streamDestroy without clearTimeout(retryTimeout)
streamDestroy_KeepsTimer(s) ==
  LET r == s.activeRequest
      d == s.activeDecodedStream
      n1 == [s.net EXCEPT ![r].destroyed = TRUE,
                          ![r].res = IF @ = "open" THEN "destroyed" ELSE @]
      n2 == IF d # 0
            THEN [n1 EXCEPT ![d].res = IF @ = "open" THEN "destroyed" ELSE @]
            ELSE n1
  IN [s EXCEPT !.net = n2, !.pipes = {p \in @ : p.src # d}]

\* activeRequest.destroy(err); activeDecodedStream?.unpipe(stream);
\* activeDecodedStream?.destroy(); clearTimeout(retryTimeout)
streamDestroy(s) ==
  LET r == s.activeRequest
      d == s.activeDecodedStream
      n1 == [s.net EXCEPT ![r].destroyed = TRUE,
                          ![r].res = IF @ = "open" THEN "destroyed" ELSE @]
      n2 == IF d # 0
            THEN [n1 EXCEPT ![d].res = IF @ = "open" THEN "destroyed" ELSE @]
            ELSE n1
  IN [s EXCEPT !.net = n2,
               !.pipes = {p \in @ : p.src # d},
               !.timers = @ \ {s.retryTimeout}]

\* stream._destroy(...args)
_destroy(s) ==
  LET s1 == [s EXCEPT !.destroyed = TRUE]
  IN IF s1.activeRequest # 0
     THEN streamDestroy(s1)
     ELSE [s1 EXCEPT !.destroyArgs = "set"]

\* stream.destroy(): the stream calls _destroy, unless it is destroyed already
destroy(s) == IF s.destroyed THEN s ELSE _destroy(s)

\* stream.abort()
abort(s) == destroy(emit([s EXCEPT !.aborted = TRUE], "abort", 0))

\* the keys of urlParse(url) that the transport reads
urlKeys == {"protocol", "host", "path"}

\* the keys of the options `o`: those of Miniget.defaultOptions, which
\* Object.assign has copied into opts, and those the caller gave (a method
\* always, in the sessions modelled); headers are there with a Range or,
\* added at construction, with acceptEncoding
ObjectKeys(o) ==
  {"maxRedirects", "maxRetries", "maxReconnects", "backoff", "method"}
  \cup (IF o.Range # NoRange \/ o.acceptEncoding.given THEN {"headers"} ELSE {})
  \cup (IF o.transform THEN {"transform"} ELSE {})
  \cup (IF o.acceptEncoding.given THEN {"acceptEncoding"} ELSE {})

\* Object.assign(parsed, options) followed by the deletion of the keys of
\* the defaults, as the older variant does
assignKeys_DeletesDefaults(keys, o) ==
  (keys \cup ObjectKeys(o)) \ {"maxRedirects", "maxRetries", "maxReconnects", "backoff"}

\* the keys of parsed after Object.assign(parsed, opts)
assignKeys(keys, o) == keys \cup ObjectKeys(o)

\* new MinigetError('Invalid URL object from `transform` function')
InvalidTransform == MinigetError("Invalid URL object from transform function", NaN)

\* the transform step without its look-up of the returned protocol
transform_KeepsHttpLib(u, transformed) ==
  IF ~opts.transform THEN [err |-> undefined, httpLib |-> protocol(u)]
  ELSE IF transformed.kind = "throws" THEN [err |-> TransformError, httpLib |-> NoProtocol]
  ELSE IF transformed.kind = "falsy" THEN [err |-> InvalidTransform, httpLib |-> NoProtocol]
  ELSE [err |-> undefined, httpLib |-> protocol(u)]

\* the transform step of doDownload on the parsed url `u`: the error it
\* emits (undefined: none) or the key of the httpLib it leaves for the
\* request; a thrown error is emitted as it is, and a falsy result or an
\* object with a protocol has httpLibs looked up again
transform(u, transformed) ==
  IF ~opts.transform THEN [err |-> undefined, httpLib |-> protocol(u)]
  ELSE IF transformed.kind = "throws" THEN [err |-> TransformError, httpLib |-> NoProtocol]
  ELSE IF transformed.kind = "falsy" \/ transformed.protocol # NoProtocol
  THEN IF transformed.protocol \notin httpLibs
       THEN [err |-> InvalidTransform, httpLib |-> NoProtocol]
       ELSE [err |-> undefined, httpLib |-> transformed.protocol]
  ELSE [err |-> undefined, httpLib |-> protocol(u)]

\* doDownload(); spreadThrows: whether spreading an undefined destroyArgs
\* throws (it does unless the build compiles the spread to Function.apply);
\* transformed: what opts.transform does in this call, if there is one
doDownload(s, spreadThrows, transformed) ==
  IF ~httpLib(s.url)
  THEN emit(s, "error", MinigetError("Invalid URL", NaN))
  ELSE IF transform(s.url, transformed).err # undefined
  THEN emit(s, "error", transform(s.url, transformed).err)
  ELSE LET id == Len(s.net) + 1
           lib == transform(s.url, transformed).httpLib
           range == IF s.acceptRanges /\ s.downloaded > 0
                    THEN Bytes(s.downloaded + rangeStart,
                               IF Truthy(rangeEnd) THEN rangeEnd ELSE NaN)
                    ELSE opts.Range
           parsed == assignKeys(urlKeys, opts)
           s1 == [s EXCEPT !.net = Append(@, NewRequest(s.url, lib, parsed, range)),
                           !.activeRequest = id,
                           !.listeners = @ \cup {L("req", id, "error"),
                                                 L("req", id, "close")}]
       IN IF s1.destroyed
          THEN IF s1.destroyArgs = "undefined" /\ spreadThrows
               THEN [s1 EXCEPT !.crashed = TRUE]
               ELSE emit(streamDestroy(s1), "request", 0)
          ELSE emit(s1, "request", 0)

\* a response as the callback of httpLib.request sees it, without a
\* Content-Encoding header
Response(statusCode, location, retryAfter, length, ranges) ==
  [statusCode |-> statusCode, location |-> location, retryAfter |-> retryAfter,
   contentLength |-> length, acceptRanges |-> ranges, contentEncoding |-> NoEncoding]

\* onRedirect with redirects++ > opts.maxRedirects
onRedirect_OffByOne(s, id, res) ==
  LET s1 == [s EXCEPT !.redirects = @ + 1]
  IN IF s.redirects > opts.maxRedirects
     THEN cleanup(emit(s1, "error", MinigetError("Too many redirects", NaN)), id)
     ELSE IF res.location # ""
     THEN LET ms == IF res.retryAfter # NoHeader
                    THEN parseInt(res.retryAfter) * 1000 ELSE 0
              s2 == [s1 EXCEPT !.url = res.location]
          IN cleanup(emit(setTimeout(s2, "redirect", ms), "redirect", res.location), id)
     ELSE cleanup(emit(s1, "error",
                       MinigetError("Redirect status code given with no location",
                                    res.statusCode)), id)

\* onRedirect starting the retries of the new url at zero
onRedirect_ResetsRetries(s, id, res) ==
  LET s1 == [s EXCEPT !.redirects = @ + 1, !.retries = 0]
  IN IF s.redirects >= opts.maxRedirects
     THEN cleanup(emit(s1, "error", MinigetError("Too many redirects", NaN)), id)
     ELSE IF res.location # ""
     THEN LET ms == IF res.retryAfter # NoHeader
                    THEN parseInt(res.retryAfter) * 1000 ELSE 0
              s2 == [s1 EXCEPT !.url = res.location]
          IN cleanup(emit(setTimeout(s2, "redirect", ms), "redirect", res.location), id)
     ELSE cleanup(emit(s1, "error",
                       MinigetError("Redirect status code given with no location",
                                    res.statusCode)), id)

\* onRedirect taking Retry-After for milliseconds, as retryRequest does
onRedirect_DelayInMs(s, id, res) ==
  LET s1 == [s EXCEPT !.redirects = @ + 1]
  IN IF s.redirects >= opts.maxRedirects
     THEN cleanup(emit(s1, "error", MinigetError("Too many redirects", NaN)), id)
     ELSE IF res.location # ""
     THEN LET ms == IF res.retryAfter # NoHeader THEN parseInt(res.retryAfter) ELSE 0
              s2 == [s1 EXCEPT !.url = res.location]
          IN cleanup(emit(setTimeout(s2, "redirect", ms), "redirect", res.location), id)
     ELSE cleanup(emit(s1, "error",
                       MinigetError("Redirect status code given with no location",
                                    res.statusCode)), id)

\* onRedirect without its test of res.headers.location
onRedirect_NoLocationCheck(s, id, res) ==
  LET s1 == [s EXCEPT !.redirects = @ + 1]
  IN IF s.redirects >= opts.maxRedirects
     THEN cleanup(emit(s1, "error", MinigetError("Too many redirects", NaN)), id)
     ELSE LET ms == IF res.retryAfter # NoHeader
                    THEN parseInt(res.retryAfter) * 1000 ELSE 0
              s2 == [s1 EXCEPT !.url = res.location]
          IN cleanup(emit(setTimeout(s2, "redirect", ms), "redirect", res.location), id)

\* the response is a redirect: the redirect branch of the callback
onRedirect(s, id, res) ==
  LET s1 == [s EXCEPT !.redirects = @ + 1]
  IN IF s.redirects >= opts.maxRedirects
     THEN cleanup(emit(s1, "error", MinigetError("Too many redirects", NaN)), id)
     ELSE IF res.location # ""
     THEN LET ms == IF res.retryAfter # NoHeader
                    THEN parseInt(res.retryAfter) * 1000 ELSE 0
              s2 == [s1 EXCEPT !.url = res.location]
          IN cleanup(emit(setTimeout(s2, "redirect", ms), "redirect", res.location), id)
     ELSE cleanup(emit(s1, "error",
                       MinigetError("Redirect status code given with no location",
                                    res.statusCode)), id)

\* onRateLimit emitting no error when retryRequest refuses
onRateLimit_Silent(s, id, res) ==
  cleanup(retryRequest(s, RetryOptions(NaN, undefined, parseInt(res.retryAfter))).s, id)

\* the response is a 429 or a 503: the rate limiting branch of the callback
onRateLimit(s, id, res) ==
  LET r == retryRequest(s, RetryOptions(NaN, undefined, parseInt(res.retryAfter)))
  IN IF ~r.ret
     THEN cleanup(emit(r.s, "error", StatusError(res.statusCode)), id)
     ELSE cleanup(r.s, id)

\* isStatusError without the test res.statusCode < 200
isStatusError_From400(statusCode) == Truthy(statusCode) /\ statusCode >= 400

\* the status code is an error: res.statusCode && (res.statusCode < 200 ||
\* res.statusCode >= 400)
isStatusError(statusCode) ==
  Truthy(statusCode) /\ (statusCode < 200 \/ statusCode >= 400)

\* the response has an error status: the status code branch of the callback
onStatusError(s, id, res) ==
  LET err == StatusError(res.statusCode)
  IN IF res.statusCode >= 500
     THEN cleanup(onError(s, id, err, res.statusCode), id)
     ELSE cleanup(emit(s, "error", err), id)

\* onSuccess without its test of !contentLength
onSuccess_AlwaysLearns(s, id, res) ==
  LET chain == decoderChain(opts.acceptEncoding, res.contentEncoding)
      s1 == [s EXCEPT !.activeDecodedStream = id, !.decoders = chain,
                      !.net[id].chain = chain, !.net[id].wired = 1..Len(chain)]
      length == parseInt(res.contentLength)
      s2 == [s1 EXCEPT !.contentLength = length,
                       !.acceptRanges = res.acceptRanges = "bytes"
                                        /\ length > 0
                                        /\ opts.maxReconnects > 0]
      s3 == [s2 EXCEPT !.listeners = @ \cup {L("res", id, "data"),
                                             L("res", id, "end")},
                       !.pipes = @ \cup {[src |-> id, end |-> ~s2.acceptRanges]},
                       !.activeResponse = id]
      s4 == emit(s3, "response", res.contentEncoding)
  IN [s4 EXCEPT !.listeners = @ \cup {L("res", id, "error")}]

\* any other response is streamed: the rest of the callback
onSuccess(s, id, res) ==
  LET chain == decoderChain(opts.acceptEncoding, res.contentEncoding)
      s1 == [s EXCEPT !.activeDecodedStream = id, !.decoders = chain,
                      !.net[id].chain = chain, !.net[id].wired = 1..Len(chain)]
      length == parseInt(res.contentLength)
      s2 == IF ~Truthy(s1.contentLength)
            THEN [s1 EXCEPT !.contentLength = length,
                            !.acceptRanges = res.acceptRanges = "bytes"
                                             /\ length > 0
                                             /\ opts.maxReconnects > 0]
            ELSE s1
      s3 == [s2 EXCEPT !.listeners = @ \cup {L("res", id, "data"),
                                             L("res", id, "end")},
                       !.pipes = @ \cup {[src |-> id, end |-> ~s2.acceptRanges]},
                       !.activeResponse = id]
      s4 == emit(s3, "response", res.contentEncoding)
  IN [s4 EXCEPT !.listeners = @ \cup {L("res", id, "error")}]

\* the callback without its test of stream.destroyed
onResponse_NoDestroyedCheck(s, id, res) ==
  IF res.statusCode \in redirectStatusCodes THEN onRedirect(s, id, res)
  ELSE IF res.statusCode \in retryStatusCodes THEN onRateLimit(s, id, res)
  ELSE IF isStatusError(res.statusCode) THEN onStatusError(s, id, res)
  ELSE onSuccess(s, id, res)

\* the callback given to httpLib.request, for the attempt `id`
onResponse(s, id, res) ==
  IF s.destroyed THEN s
  ELSE IF res.statusCode \in redirectStatusCodes THEN onRedirect(s, id, res)
  ELSE IF res.statusCode \in retryStatusCodes THEN onRateLimit(s, id, res)
  ELSE IF isStatusError(res.statusCode) THEN onStatusError(s, id, res)
  ELSE onSuccess(s, id, res)

(***************************************************************************)
(* The transport: what the server sends for a request.                     *)
(***************************************************************************)
\* offset of the first byte, and one past the last byte, of the body that
\* answers a request carrying the Range header `range`
BodyStart(range) == IF range.kind = "bytes" THEN range.start ELSE 0
\* the resource has ResLen bytes from the start of the caller's range on
ResourceLength == BodyStart(opts.Range) + ResLen
BodyStop(range) ==
  IF range.kind = "bytes" /\ range.end # NaN
  THEN Min(range.end + 1, ResourceLength) ELSE ResourceLength
BodyLength(range) == Max(0, BodyStop(range) - BodyStart(range))

\* the responses the transport may give to the request `id`: a 200 with
\* or without Content-Length and Accept-Ranges, the other codes with the
\* headers the session reads for them
Responses(id) ==
  LET length == BodyLength(net[id].range)
  IN {Response(200, "", NoHeader, length, "bytes"),
      Response(200, "", NoHeader, length, "none"),
      Response(200, "", NoHeader, NoHeader, "none")}
     \cup {Response(code, "", NoHeader, NoHeader, "none") : code \in {100, 304, 404, 500}}
     \cup {Response(302, location, retryAfter, NoHeader, "none") :
             location \in {"", "http://b", "bad"}, retryAfter \in RetryAfterValues}
     \cup {Response(code, "", retryAfter, NoHeader, "none") :
             code \in retryStatusCodes, retryAfter \in RetryAfterValues}

\* the session streams the body of this response
Streams(s, res) ==
  /\ ~s.destroyed
  /\ res.statusCode \notin redirectStatusCodes \cup retryStatusCodes
  /\ ~isStatusError(res.statusCode)

\* the number of body bytes the response to the request `id` carries
Body(id, res) ==
  IF opts.method = "HEAD" \/ res.statusCode # 200 THEN 0 ELSE BodyLength(net[id].range)

Requests == 1..Len(net)

(***************************************************************************)
(* Init: the state when Miniget() returns.                                 *)
(***************************************************************************)
Events == {"request", "response", "redirect", "retry", "reconnect", "end", "error",
           "abort"}

\* the session's state when its closure variables are declared
Constructed(u) ==
  [url |-> u, activeRequest |-> 0, activeResponse |-> 0, activeDecodedStream |-> 0,
   decoders |-> <<>>,
   redirects |-> 0, retries |-> 0, retryTimeout |-> NoTimer, reconnects |-> 0,
   contentLength |-> NaN, acceptRanges |-> FALSE, downloaded |-> 0,
   destroyArgs |-> "undefined", destroyed |-> FALSE, aborted |-> FALSE,
   ended |-> FALSE, output |-> <<>>, listeners |-> {}, pipes |-> {}, timers |-> {},
   emitted |-> [e \in Events |-> 0],
   last |-> [request |-> 0, response |-> NoEncoding, redirect |-> "", end |-> 0,
             retry |-> 0, reconnect |-> 0, error |-> undefined, abort |-> 0],
   crashed |-> FALSE, text |-> NoText, net |-> <<>>]

\* stream.text(): a promise, and listeners that collect the 'data' chunks,
\* resolve it on 'end' and reject it on 'error'
stream_text(s) ==
  [s EXCEPT !.text = [called |-> TRUE, body |-> <<>>, state |-> "pending",
                      value |-> <<>>, reason |-> undefined]]

\* Miniget running the first attempt before it returns
Miniget_Synchronous(u) == doDownload(Constructed(u), FALSE, Descriptor(NoProtocol))

\* Miniget(url, options): process.nextTick(doDownload); return stream
Miniget(u) == setTimeout(Constructed(u), "nextTick", 0)

\* the state when the caller's expression has been evaluated, for some
\* url: Miniget(url, options), or Miniget(url, options).text()
Returned(options, withText) ==
  /\ opts = assign(defaultOptions, options)
  /\ \E u \in {"http://a", "bad"} :
       \E s \in {IF withText THEN stream_text(Miniget(u)) ELSE Miniget(u)} :
          /\ url = s.url
          /\ activeRequest = s.activeRequest
          /\ activeResponse = s.activeResponse
          /\ activeDecodedStream = s.activeDecodedStream
          /\ decoders = s.decoders
          /\ redirects = s.redirects
          /\ retries = s.retries
          /\ retryTimeout = s.retryTimeout
          /\ reconnects = s.reconnects
          /\ contentLength = s.contentLength
          /\ acceptRanges = s.acceptRanges
          /\ downloaded = s.downloaded
          /\ destroyArgs = s.destroyArgs
          /\ destroyed = s.destroyed
          /\ aborted = s.aborted
          /\ ended = s.ended
          /\ output = s.output
          /\ listeners = s.listeners
          /\ pipes = s.pipes
          /\ timers = s.timers
          /\ emitted = s.emitted
          /\ last = s.last
          /\ crashed = s.crashed
          /\ text = s.text
          /\ net = s.net
  /\ turn = "caller"

\* the state when Miniget(url, options) returns
Start(options) == Returned(options, FALSE)

Init == \E options \in Options : Start(options)

\* the caller gives no options
InitDefault == Start(NoOptions)

(***************************************************************************)
(* Actions: one per event delivered to the session.                        *)
(***************************************************************************)
\* the timer t fires and runs doDownload; a timer that has fired cannot be
\* cleared any more
Fire(t, spreadThrows, transformed) ==
  /\ ~crashed
  /\ t \in timers
  /\ Run(doDownload([S EXCEPT !.timers = @ \ {t},
                              !.retryTimeout = IF @ = t THEN NoTimer ELSE @],
                    spreadThrows, transformed))

\* spreading an undefined destroyArgs throws, or not (Function.apply)
SpreadThrows == IF destroyed /\ destroyArgs = "undefined" THEN BOOLEAN ELSE {FALSE}

\* what the caller's transform may do when it is called; without one, the
\* parsed URL is used as it is
Transformed ==
  IF opts.transform /\ httpLib(url)
  THEN {Thrown, Falsy} \cup {Descriptor(p) : p \in {NoProtocol, "http:", "https:", "file"}}
  ELSE {Descriptor(NoProtocol)}

\* process.nextTick(doDownload)
NextTick ==
  \E t \in timers, b \in SpreadThrows, r \in Transformed :
     t.kind = "nextTick" /\ Fire(t, b, r)

\* the timer of retryRequest or of reconnect fires
RetryTimeout ==
  \E t \in timers, b \in SpreadThrows, r \in Transformed :
     t.kind \in {"retry", "reconnect"} /\ Fire(t, b, r)

\* the timer of a redirect fires
RedirectTimeout ==
  \E t \in timers, b \in SpreadThrows, r \in Transformed :
     t.kind = "redirect" /\ Fire(t, b, r)

\* the request `id` can be answered
AwaitsResponse(id) ==
  ~crashed /\ id \in Requests /\ net[id].req = "open" /\ net[id].res = "none"

\* the session after the callback of the request `id` has run on `res`
AfterResponse(id, res) ==
  LET state == IF Streams(S, res) THEN "open" ELSE "ignored"
      s1 == [S EXCEPT !.net[id].res = state, !.net[id].len = Body(id, res)]
  IN onResponse(s1, id, res)

\* the transport answers the request `id` with the response `res`
HttpResponse(id, res) ==
  AwaitsResponse(id) /\ res \in Responses(id) /\ Run(AfterResponse(id, res))

\* a response whose request has closed or errored delivers the `length`
\* bytes it has buffered and ends, before any timer fires (node 10 and 12
\* emit the request's 'close' first, then push the end of the response)
Flush(s, id, length) ==
  IF s.net[id].res # "open" THEN s
  ELSE LET first == BodyStart(s.net[id].range) + s.net[id].pos
           chunk == [i \in 1..length |-> first + i - 1]
           piped == {p \in s.pipes : p.src = id}
           s1 == [s EXCEPT !.net[id].res = "ended", !.net[id].pos = @ + length,
                           !.pipes = @ \ piped]
           s2 == IF length > 0 /\ L("res", id, "data") \in s1.listeners
                 THEN resOnData(s1, id, chunk) ELSE s1
           s3 == IF length > 0 /\ piped # {}
                 THEN streamWrite(s2, decoded(s.net[id].chain, chunk)) ELSE s2
           s4 == IF L("res", id, "end") \in s3.listeners THEN onEnd(s3, id) ELSE s3
       IN IF \E p \in piped : p.end THEN streamEnd(s4) ELSE s4

\* what the response of the request `id` may still have buffered
Buffered(id) == 0..(IF net[id].res = "open" THEN net[id].len - net[id].pos ELSE 0)

\* the request `id` can emit `event` to a handler of the session
RequestEmits(id, event) ==
  ~crashed /\ id \in Requests /\ net[id].req = "open" /\ L("req", id, event) \in listeners

\* the session after the request `id` emitted 'error' with `message`
AfterRequestError(id, message, length) ==
  Flush(onError([S EXCEPT !.net[id].req = "errored"], id,
                MinigetError(message, NaN), NaN), id, length)

\* the request `id` emits 'error'
RequestError(id, message, length) ==
  /\ RequestEmits(id, "error")
  /\ length \in Buffered(id)
  /\ Run(AfterRequestError(id, message, length))

\* the session after the request `id` emitted 'close'
AfterRequestClose(id, length) ==
  Flush(onRequestClose([S EXCEPT !.net[id].req = "closed"], id), id, length)

\* the request `id` emits 'close'
RequestClose(id, length) ==
  /\ RequestEmits(id, "close")
  /\ length \in Buffered(id)
  /\ Run(AfterRequestClose(id, length))

\* the response `id` is delivering its body
Delivering(id) == ~crashed /\ id \in Requests /\ net[id].res = "open"

\* the session after the response `id` emitted `length` bytes of its body
\* in a 'data' event: onData sees the chunk, and the chunk goes through the
\* decoders into the stream
AfterResponseData(id, length) ==
  LET first == BodyStart(net[id].range) + net[id].pos
      chunk == [i \in 1..length |-> first + i - 1]
      s1 == [S EXCEPT !.net[id].pos = @ + length]
      s2 == IF L("res", id, "data") \in listeners THEN resOnData(s1, id, chunk) ELSE s1
  IN IF \E p \in pipes : p.src = id
     THEN streamWrite(s2, decoded(net[id].chain, chunk)) ELSE s2

\* the response `id` emits `length` bytes of its body in a 'data' event
ResponseData(id, length) ==
  /\ Delivering(id)
  /\ length \in 1..(net[id].len - net[id].pos)
  /\ Run(AfterResponseData(id, length))

\* the session after the response `id` emitted 'end'
AfterResponseEnd(id) ==
  LET s1 == [S EXCEPT !.net[id].res = "ended", !.pipes = {p \in @ : p.src # id}]
      s2 == IF L("res", id, "end") \in listeners THEN onEnd(s1, id) ELSE s1
  IN IF \E p \in pipes : p.src = id /\ p.end THEN streamEnd(s2) ELSE s2

\* the response `id` emits 'end', possibly before its body is complete
ResponseEnd(id) == Delivering(id) /\ Run(AfterResponseEnd(id))

\* the response `id` can emit 'error': it is open, or it has ended
MayFail(id) == ~crashed /\ id \in Requests /\ net[id].res \in {"open", "ended"}

\* the session after the response `id` emitted 'error' with `message`
AfterResponseError(id, message) ==
  LET s1 == [S EXCEPT !.net[id].res = "errored"]
  IN IF L("res", id, "error") \in listeners
     THEN onError(s1, id, MinigetError(message, NaN), NaN)
     ELSE s1

\* the response `id` emits 'error', possibly after it has ended
ResponseError(id, message) == MayFail(id) /\ Run(AfterResponseError(id, message))

\* the caller calls stream.destroy()
Destroy ==
  /\ ~crashed
  /\ Call(destroy(S))

\* the caller calls stream.abort()
Abort ==
  /\ ~crashed
  /\ emitted.abort < MaxAborts
  /\ Call(abort(S))

TransportResponse == \E id \in Requests : \E res \in Responses(id) : HttpResponse(id, res)
TransportRequestError ==
  \E id \in Requests, m \in RequestErrors, length \in 0..ResLen : RequestError(id, m, length)
TransportRequestClose == \E id \in Requests, length \in 0..ResLen : RequestClose(id, length)
TransportData == \E id \in Requests, length \in 1..ResLen : ResponseData(id, length)
TransportEnd == \E id \in Requests : ResponseEnd(id)
TransportResponseError == \E id \in Requests, m \in ResponseErrors : ResponseError(id, m)

Next ==
  \/ NextTick
  \/ RetryTimeout
  \/ RedirectTimeout
  \/ TransportResponse
  \/ TransportRequestError
  \/ TransportRequestClose
  \/ TransportData
  \/ TransportEnd
  \/ TransportResponseError
  \/ Destroy
  \/ Abort

Spec == Init /\ [][Next]_vars

\* the sessions of a caller that gives no options
SpecDefault == InitDefault /\ [][Next]_vars

(***************************************************************************)
(* Encoded responses: the sessions of a caller that gives acceptEncoding,  *)
(* up to the first response.                                               *)
(***************************************************************************)
\* what separates two encodings in a header: a comma, with or without a
\* space after it
Separators == {<<",", " ">>, <<",">>}

\* the Content-Encoding headers that list n encodings
RECURSIVE Listing(_)
Listing(n) ==
  IF n = 1 THEN {<<e>> : e \in Encodings}
  ELSE {h \o sep \o <<e>> : h \in Listing(n - 1), sep \in Separators, e \in Encodings}

ContentEncodings == {NoEncoding} \cup UNION {Listing(n) : n \in 1..MaxEncodings}

Registries == {NoRegistry} \cup {Registry(names) : names \in SUBSET Encodings}

InitDecoder ==
  \E registry \in Registries : Start([NoOptions EXCEPT !.acceptEncoding = registry])

\* the 200 responses the transport may give, with a Content-Encoding header
EncodedResponses(id) ==
  {[Response(200, "", NoHeader, BodyLength(net[id].range), "none")
      EXCEPT !.contentEncoding = h] : h \in ContentEncodings}

TransportEncodedResponse ==
  \E id \in Requests : \E res \in EncodedResponses(id) :
     AwaitsResponse(id) /\ Run(AfterResponse(id, res))

NextDecoder ==
  \/ NextTick
  \/ TransportEncodedResponse

SpecDecoder == InitDecoder /\ [][NextDecoder]_vars

(***************************************************************************)
(* Decoded transfers: the sessions of a caller that gives acceptEncoding   *)
(* and no budget, or one retry and one reconnect, the responses encoded    *)
(* once or twice, the requests failing only through their responses.  A    *)
(* decoder works asynchronously: a stage that has been given data may emit *)
(* 'error' at any later moment, and one stage of a chain at most does.     *)
(***************************************************************************)
StagedOptions ==
  {[NoOptions EXCEPT !.acceptEncoding = Registry({"gzip", "deflate"})] @@
     [maxRedirects |-> 0, maxRetries |-> n, maxReconnects |-> n, backoff |-> Backoff] :
     n \in 0..1}

InitStaged == \E options \in StagedOptions : Start(options)

\* the Content-Encoding headers of the responses: none, one encoding, two
StagedEncodings == {NoEncoding, <<"gzip">>, <<"gzip", ",", " ", "deflate">>}

\* the 200 responses the transport may give, with Accept-Ranges: bytes
StagedResponses(id) ==
  {[Response(200, "", NoHeader, BodyLength(net[id].range), "bytes")
      EXCEPT !.contentEncoding = h] : h \in StagedEncodings}

TransportStagedResponse ==
  \E id \in Requests : \E res \in StagedResponses(id) :
     AwaitsResponse(id) /\ Run(AfterResponse(id, res))

\* the error a decoder emits
DecoderFailure == MinigetError("incorrect header check", NaN)

\* the stage `k` of the decoders of the response `id` can emit 'error' to
\* onError: it has been given data, has not failed, and the chain has not
\* ended
MayFailDecoding(id, k) ==
  /\ ~crashed /\ id \in Requests /\ k \in net[id].wired
  /\ net[id].pos > 0 /\ net[id].res # "ended"

\* the session after the stage `k` of the response `id` emitted 'error':
\* nothing goes through the chain any more, and no other stage of it fails
AfterDecoderError(id, k) ==
  onError([S EXCEPT !.net[id].wired = {}, !.pipes = {p \in @ : p.src # id}],
          id, DecoderFailure, NaN)

\* a decoder emits 'error'
DecoderError(id, k) == MayFailDecoding(id, k) /\ Run(AfterDecoderError(id, k))

TransportDecoderError == \E id \in Requests, k \in 1..MaxEncodings : DecoderError(id, k)

NextStaged ==
  \/ NextTick
  \/ RetryTimeout
  \/ TransportStagedResponse
  \/ TransportData
  \/ TransportEnd
  \/ TransportResponseError
  \/ TransportDecoderError

SpecStaged == InitStaged /\ [][NextStaged]_vars

(***************************************************************************)
(* The sessions of a caller that gives a transform: plain GETs with one    *)
(* retry.                                                                  *)
(***************************************************************************)
TransformOptions ==
  {[o EXCEPT !.transform = TRUE] :
     o \in {o \in Options : o.method = "GET" /\ o.Range = NoRange /\ o.maxRetries = 1}}

InitTransform == \E options \in TransformOptions : Start(options)

SpecTransform == InitTransform /\ [][Next]_vars

(***************************************************************************)
(* The sessions of a caller that evaluates Miniget(url, options).text():   *)
(* plain GETs with one retry.                                              *)
(***************************************************************************)
TextOptions ==
  {o \in Options : o.method = "GET" /\ o.Range = NoRange /\ o.maxRetries = 1}

InitText == \E options \in TextOptions : Returned(options, TRUE)

SpecText == InitText /\ [][Next]_vars

(***************************************************************************)
(* The sessions of a caller that gives a Range header bytes=<a>-<e> or      *)
(* bytes=<a>-, or a malformed one: GETs with one reconnect, and one retry   *)
(* or one redirect.                                                        *)
(***************************************************************************)
RangeRequests ==
  {BadRange} \cup {Bytes(a, NaN) : a \in 0..1}
  \cup UNION {{Bytes(a, e) : e \in a..(a + ResLen - 1)} : a \in 0..1}

RangedOptions ==
  {[NoOptions EXCEPT !.Range = range] @@
     [maxRedirects |-> 1 - n, maxRetries |-> n, maxReconnects |-> 1,
      backoff |-> Backoff] : range \in RangeRequests, n \in 0..1}

InitRange == \E options \in RangedOptions : Start(options)

SpecRange == InitRange /\ [][Next]_vars

(***************************************************************************)
(* The sessions of a caller that gives a backoff: plain GETs that spend    *)
(* their budget on redirects or on retries and reconnects, the increment   *)
(* below the maximum or above it.                                          *)
(***************************************************************************)
Backoffs == {Backoff, [inc |-> 200, max |-> 150]}

BackoffOptions ==
  {[o EXCEPT !.backoff = b] :
     o \in {o \in Options :
              /\ o.method = "GET" /\ o.Range = NoRange
              /\ o.maxRedirects = 0 \/ o.maxRedirects = MaxBudget},
     b \in Backoffs}

InitBackoff == \E options \in BackoffOptions : Start(options)

SpecBackoff == InitBackoff /\ [][Next]_vars

(***************************************************************************)
(* Progress: the runtime runs every timer that is not cleared, and the     *)
(* transport does not leave a request or a response without an event while *)
(* it can deliver one.                                                     *)
(***************************************************************************)
TimerFires == NextTick \/ RetryTimeout \/ RedirectTimeout

TransportActs ==
  \/ TransportResponse
  \/ TransportRequestError
  \/ TransportRequestClose
  \/ TransportData
  \/ TransportEnd
  \/ TransportResponseError

Fairness == WF_vars(TimerFires) /\ WF_vars(TransportActs)

SpecLive == Init /\ [][Next]_vars /\ Fairness

TypeOK ==
  /\ \A t \in timers :
       t.kind \in {"nextTick", "retry", "reconnect", "redirect"} /\ t.ms >= 0
  /\ downloaded >= 0

(***************************************************************************)
(* Terminal events.                                                        *)
(***************************************************************************)
\* a terminal event has occurred: the stream ended, emitted 'error', or was
\* cancelled by the caller (stream.destroy())
Terminated == emitted.end > 0 \/ emitted.error > 0 \/ destroyed

\* C1: at most one terminal event (end, error, cancelled) occurs, once: a
\* step emits at most one of 'end' and 'error', cancelling emits neither,
\* and once a terminal event has occurred no 'end' or 'error' is emitted
C1_OneTerminalEvent ==
  [][/\ emitted'.end + emitted'.error <= emitted.end + emitted.error + 1
     /\ Terminated => emitted'.end = emitted.end /\ emitted'.error = emitted.error
     /\ destroyed' /\ ~destroyed => emitted'.end = emitted.end /\ emitted'.error = emitted.error]_vars

\* the offsets `out` are those of the resource from the caller's range
\* start on, each once and in order
Contiguous(out) == \A i \in 1..Len(out) : out[i] = rangeStart + i - 1

\* C2: at every state the bytes written to the stream are a contiguous
\* prefix of the requested resource: none twice, none skipped, in order
C2_ContiguousPrefix == Contiguous(output)

(***************************************************************************)
(* Interruptions of a transfer.                                            *)
(***************************************************************************)
\* no terminal event has occurred
Live == ~destroyed /\ ~crashed /\ ~ended /\ emitted.error = 0

\* the attempt `id` is streaming with range resume on and has received k
\* bytes, 0 < k < contentLength
Streaming(id) ==
  /\ Live /\ acceptRanges /\ opts.method # "HEAD"
  /\ id \in Requests /\ activeRequest = id /\ activeDecodedStream = id
  /\ 0 < downloaded /\ downloaded < contentLength

\* the states an 'error' of the request `id` or of its response leads to
AfterTransportError(id) ==
  (IF RequestEmits(id, "error")
   THEN {AfterRequestError(id, m, n) : m \in RequestErrors, n \in Buffered(id)}
   ELSE {})
  \cup (IF MayFail(id) THEN {AfterResponseError(id, m) : m \in ResponseErrors} ELSE {})

\* the state an 'end' of the response `id` leads to
AfterEnd(id) == IF Delivering(id) THEN {AfterResponseEnd(id)} ELSE {}

\* the states a bare 'close' of the request `id` leads to
AfterClose(id) ==
  IF RequestEmits(id, "close")
  THEN {AfterRequestClose(id, n) : n \in Buffered(id)} ELSE {}

\* in `s` one reconnect has been decided since the current state
ReconnectedOnce(s) ==
  /\ s.emitted.reconnect = emitted.reconnect + 1
  /\ s.reconnects = reconnects + 1
  /\ s.emitted.error = 0 /\ ~s.ended
  /\ s.emitted.retry = emitted.retry
  /\ s.downloaded = downloaded
  /\ s.timers = {[kind |-> "reconnect", ms |-> Min(opts.backoff.inc, opts.backoff.max)]}

\* C3: with range resume on, the first interruption of a transfer at
\* 0 < k < contentLength bytes, by an 'error' or by a premature 'end', emits
\* exactly one reconnect event and schedules the resumed attempt; an attempt
\* is answered by at most one reconnect; and a session that ends after this
\* one interruption has downloaded contentLength bytes and emitted no error
C3_SingleInterruption ==
  /\ \A id \in Requests :
       Streaming(id) /\ reconnects = 0 =>
         \A s \in AfterTransportError(id) \cup AfterEnd(id) : ReconnectedOnce(s)
  /\ emitted.reconnect <= emitted.response
  /\ ended /\ acceptRanges /\ reconnects = 1 /\ emitted.retry = 0 /\ opts.method # "HEAD"
       => downloaded = contentLength /\ emitted.error = 0 /\ emitted.reconnect = 1

\* C3: a session interrupted once after its first byte has completed
C3_Witness ==
  /\ ended /\ acceptRanges /\ emitted.reconnect = 1 /\ reconnects = 1
  /\ emitted.retry = 0 /\ emitted.error = 0 /\ emitted.end = 1
  /\ downloaded = contentLength /\ Len(output) = ResLen

\* the stream is ended in `s`, and was not before, only with all bytes
EndsComplete(s) == s.ended /\ ~ended => s.downloaded = s.contentLength

\* ... or for a HEAD request, or with the reconnect budget exceeded
EndsCompleteOrExhausted(s) ==
  s.ended /\ ~ended =>
    \/ s.downloaded = s.contentLength
    \/ opts.method = "HEAD"
    \/ s.reconnects > opts.maxReconnects

\* C4 as claimed, for a GET: with range resume on, every step that ends the
\* stream leaves downloaded = contentLength
C4_EndsOnlyWhenComplete ==
  acceptRanges /\ opts.method = "GET" =>
    \A id \in Requests :
      \A s \in AfterTransportError(id) \cup AfterEnd(id) \cup AfterClose(id) :
        EndsComplete(s)

\* C4 as amended: with range resume on, every step that ends the stream
\* leaves downloaded = contentLength, unless the request is a HEAD or the
\* reconnect budget is exceeded by this premature end
C4_EndsCompleteOrExhausted ==
  acceptRanges =>
    \A id \in Requests :
      \A s \in AfterTransportError(id) \cup AfterEnd(id) \cup AfterClose(id) :
        EndsCompleteOrExhausted(s)

\* C4: a GET ended short of contentLength, its reconnect budget exceeded
C4_Witness ==
  /\ ended /\ acceptRanges /\ opts.method = "GET" /\ emitted.end = 1
  /\ 0 < downloaded /\ downloaded < contentLength
  /\ reconnects > opts.maxReconnects /\ emitted.reconnect = opts.maxReconnects

\* the transfer of the attempt `id` has been interrupted maxReconnects times
Exhausted(id) == Streaming(id) /\ reconnects = opts.maxReconnects

\* in `s` the session has failed with `err`, short of contentLength
FailsWith(s, err) ==
  /\ s.emitted.error = 1 /\ s.last.error = err
  /\ s.emitted.reconnect = opts.maxReconnects
  /\ ~s.ended /\ s.emitted.end = 0
  /\ s.timers = {}
  /\ s.downloaded < s.contentLength

\* in `s` the stream has ended short of contentLength, without an error
EndsPartial(s) ==
  /\ s.ended /\ s.emitted.end = 1
  /\ s.emitted.error = 0
  /\ s.emitted.reconnect = opts.maxReconnects
  /\ s.timers = {}
  /\ s.downloaded < s.contentLength

\* C5 as claimed: after maxReconnects reconnect events the next
\* interruption, an 'error' or a premature 'end', makes the session emit
\* 'error' short of contentLength, and the stream is not ended
C5_FailsWhenExhausted ==
  \A id \in Requests :
    Exhausted(id) =>
      /\ emitted.reconnect = opts.maxReconnects
      /\ \A s \in AfterTransportError(id) \cup AfterEnd(id) :
           /\ s.emitted.error = 1 /\ ~s.ended
           /\ s.emitted.reconnect = opts.maxReconnects
           /\ s.downloaded < s.contentLength

\* C5 as amended: never more than maxReconnects reconnect events; after
\* them, an 'error' of the request or response makes the session emit that
\* error short of contentLength without ending the stream, and a premature
\* 'end' ends the stream short of contentLength without an error
C5_ErrorOrPartialEnd ==
  /\ emitted.reconnect = Min(reconnects, opts.maxReconnects)
  /\ \A id \in Requests :
       Exhausted(id) =>
         /\ \A m \in RequestErrors, n \in Buffered(id) :
              RequestEmits(id, "error") =>
                FailsWith(AfterRequestError(id, m, n), MinigetError(m, NaN))
         /\ \A m \in ResponseErrors :
              MayFail(id) => FailsWith(AfterResponseError(id, m), MinigetError(m, NaN))
         /\ \A s \in AfterEnd(id) : EndsPartial(s)

\* C5: a session failed by the interruption after its last reconnect
C5_Witness ==
  /\ acceptRanges /\ opts.maxReconnects = 1 /\ emitted.reconnect = 1 /\ reconnects = 2
  /\ emitted.error = 1 /\ last.error = MinigetError("ECONNRESET", NaN)
  /\ ~ended /\ 0 < downloaded /\ downloaded < contentLength

(***************************************************************************)
(* Responses.                                                              *)
(***************************************************************************)
\* the active request `id` awaits its response, the session being live
Pending(id) == Live /\ AwaitsResponse(id) /\ activeRequest = id

\* the responses with the status `code` that the request `id` may get
Answers(id, codes) == {res \in Responses(id) : res.statusCode \in codes}

\* in `s` the session has failed with `err` without deciding anything else
FatalWith(s, err) ==
  /\ s.emitted.error = emitted.error + 1 /\ s.last.error = err
  /\ s.emitted.retry = emitted.retry /\ s.emitted.reconnect = emitted.reconnect
  /\ s.emitted.redirect = emitted.redirect
  /\ s.retries = retries /\ s.reconnects = reconnects
  /\ s.timers = {} /\ Len(s.net) = Len(net)

\* C6: a redirect response within the budget emits one redirect event with
\* the new URL and schedules the next attempt, with no retry event; the
\* redirect response after maxRedirects fails the session with 'Too many
\* redirects' and schedules nothing; a 200 is streamed whatever the number
\* of redirects before it, and what a session without retry or reconnect
\* writes is the body in order
C6_RedirectChain ==
  /\ emitted.redirect <= opts.maxRedirects
  /\ emitted.error = 0 => emitted.redirect = redirects
  /\ emitted.retry = 0 /\ emitted.reconnect = 0 => Contiguous(output)
  /\ \A id \in Requests :
       Pending(id) =>
         /\ \A res \in Answers(id, redirectStatusCodes) :
              LET s == AfterResponse(id, res)
              IN IF redirects >= opts.maxRedirects
                 THEN /\ FatalWith(s, MinigetError("Too many redirects", NaN))
                      /\ s.url = url
                 ELSE res.location # "" =>
                        /\ s.emitted.redirect = emitted.redirect + 1
                        /\ s.last.redirect = res.location
                        /\ s.url = res.location
                        /\ s.redirects = redirects + 1
                        /\ s.emitted.retry = emitted.retry /\ s.retries = retries
                        /\ s.emitted.error = 0
                        /\ \E t \in s.timers : t.kind = "redirect" /\ s.timers = {t}
         /\ \A res \in Answers(id, {200}) :
              LET s == AfterResponse(id, res)
              IN /\ s.emitted.response = emitted.response + 1
                 /\ \E p \in s.pipes : p.src = id
                 /\ s.emitted.error = 0 /\ s.emitted.retry = emitted.retry
                 /\ s.emitted.redirect = emitted.redirect

\* C6: maxRedirects redirects, then the whole body of a 200 delivered
C6_Witness ==
  /\ opts.maxRedirects = MaxBudget /\ emitted.redirect = MaxBudget
  /\ emitted.retry = 0 /\ emitted.error = 0
  /\ ended /\ Len(output) = ResLen /\ url = "http://b"

\* C7: before any response, a request error with no status code emits the
\* next retry event (numbered retries + 1) and schedules a new attempt
\* while retries < maxRetries, and is surfaced unchanged with no retry
\* event otherwise (the first error, if maxRetries = 0); a 500 that follows
\* maxRetries retries fails the session with the status error of that
\* response; a retry timer that fires issues a request
C7_RetryBudget ==
  /\ \A id \in Requests :
       Pending(id) /\ ~downloadHasStarted(S) =>
         /\ \A m \in RequestErrors :
              RequestEmits(id, "error") =>
                LET s == AfterRequestError(id, m, 0)
                IN IF retries < opts.maxRetries
                   THEN /\ s.emitted.retry = emitted.retry + 1
                        /\ s.last.retry = retries + 1
                        /\ s.retries = retries + 1
                        /\ s.emitted.error = 0
                        /\ s.timers =
                             {[kind |-> "retry",
                               ms |-> Min((retries + 1) * opts.backoff.inc,
                                          opts.backoff.max)]}
                   ELSE /\ s.emitted.error = 1 /\ s.last.error = MinigetError(m, NaN)
                        /\ s.emitted.retry = emitted.retry
                        /\ s.timers = {}
         /\ \A res \in Answers(id, {500}) :
              retries >= opts.maxRetries =>
                /\ FatalWith(AfterResponse(id, res), StatusError(500))
                /\ AfterResponse(id, res).emitted.error = 1
  /\ \A t \in timers :
       t.kind = "retry" /\ Live /\ httpLib(url) =>
         LET s == doDownload([S EXCEPT !.timers = @ \ {t}], FALSE, Descriptor(NoProtocol))
         IN Len(s.net) = Len(net) + 1 /\ s.emitted.request = emitted.request + 1

\* C7: maxRetries retries, then a 500 surfaced as the session's error
C7_Witness ==
  /\ opts.maxRetries = MaxBudget /\ emitted.retry = MaxBudget /\ last.retry = MaxBudget
  /\ emitted.error = 1 /\ last.error = StatusError(500)
  /\ emitted.request = MaxBudget + 1

\* C8 as claimed: a 500 received before any byte, with retries <
\* maxRetries, emits a retry event and schedules a new attempt; the session
\* does not fail
C8_ServerErrorRetried ==
  \A id \in Requests :
    Pending(id) /\ downloaded = 0 /\ retries < opts.maxRetries =>
      \A res \in Answers(id, {500}) :
        LET s == AfterResponse(id, res)
        IN /\ s.emitted.retry = emitted.retry + 1
           /\ s.emitted.error = 0
           /\ \E t \in s.timers : t.kind = "retry"

\* C8 as amended: a 500 received before any byte, with retries <
\* maxRetries, fails the session at once with its status error: no retry
\* event, no new attempt, the counters unchanged
C8_ServerErrorFatal ==
  \A id \in Requests :
    Pending(id) /\ downloaded = 0 /\ retries < opts.maxRetries =>
      \A res \in Answers(id, {500}) :
        FatalWith(AfterResponse(id, res), StatusError(500))

\* C8: a 500 on the first attempt has failed a session with retries left
C8_Witness ==
  /\ opts.maxRetries > 0 /\ retries = 0 /\ emitted.retry = 0
  /\ emitted.request = 1 /\ timers = {}
  /\ emitted.error = 1 /\ last.error = StatusError(500)

\* C9 as claimed: a 404, a 100 and a 304 each fail the session at once
\* with their status error: no retry, reconnect or redirect event, no new
\* attempt, the counters unchanged
C9_OtherStatusFatal ==
  \A id \in Requests :
    Pending(id) =>
      \A res \in Answers(id, {100, 304, 404}) :
        /\ FatalWith(AfterResponse(id, res), StatusError(res.statusCode))
        /\ AfterResponse(id, res).redirects = redirects

\* C9 as amended: a 404 and a 100 each fail the session at once with their
\* status error: no retry, reconnect or redirect event, no new attempt,
\* the counters unchanged; a 304 is streamed like a 200, with no error
C9_ClientErrorFatal ==
  \A id \in Requests :
    Pending(id) =>
      /\ \A res \in Answers(id, {100, 404}) :
           /\ FatalWith(AfterResponse(id, res), StatusError(res.statusCode))
           /\ AfterResponse(id, res).redirects = redirects
      /\ \A res \in Answers(id, {304}) :
           LET s == AfterResponse(id, res)
           IN /\ s.emitted.error = 0
              /\ s.emitted.response = emitted.response + 1
              /\ s.activeDecodedStream = id

\* C9: a 404 has failed a session that had retries and redirects left
C9_Witness ==
  /\ opts.maxRetries > 0 /\ opts.maxRedirects > 0 /\ retries = 0 /\ redirects = 0
  /\ emitted.error = 1 /\ last.error = StatusError(404)
  /\ emitted.retry = 0 /\ emitted.redirect = 0 /\ timers = {}

\* C10: a 429 or 503 with Retry-After: s, s > 0, received with retries <
\* maxRetries, emits one retry event and schedules the next attempt
\* s * 1000 milliseconds later
C10_RetryAfterSeconds ==
  \A id \in Requests :
    Pending(id) /\ ~downloadHasStarted(S) /\ retries < opts.maxRetries =>
      \A res \in Answers(id, retryStatusCodes) :
        res.retryAfter > 0 =>
          LET s == AfterResponse(id, res)
          IN /\ s.emitted.retry = emitted.retry + 1
             /\ s.timers = {[kind |-> "retry", ms |-> res.retryAfter * 1000]}

(***************************************************************************)
(* Rate limiting.                                                          *)
(***************************************************************************)
\* C11: a 429 or 503 draws on the budget of the transport errors: received
\* with retries < maxRetries it emits the next retry event (numbered
\* retries + 1) and schedules the next attempt; received after maxRetries
\* retries it fails the session with the status error carrying its code,
\* with no further retry event and nothing scheduled; a session that never
\* reconnected has then emitted exactly maxRetries retry events
C11_RateLimitBudget ==
  /\ emitted.reconnect = 0 => emitted.retry = Min(retries, opts.maxRetries)
  /\ \A id \in Requests :
       Pending(id) =>
         \A res \in Answers(id, retryStatusCodes) :
           LET s == AfterResponse(id, res)
           IN IF retries < opts.maxRetries
              THEN /\ s.emitted.retry = emitted.retry + 1
                   /\ s.last.retry = retries + 1
                   /\ s.retries = retries + 1
                   /\ s.emitted.error = 0
                   /\ \E t \in s.timers : t.kind = "retry" /\ s.timers = {t}
              ELSE /\ s.emitted.error = 1
                   /\ s.last.error = StatusError(res.statusCode)
                   /\ s.emitted.retry = emitted.retry
                   /\ emitted.reconnect = 0 => s.emitted.retry = opts.maxRetries
                   /\ s.timers = {} /\ Len(s.net) = Len(net)

\* C11: maxRetries retries, then a 429 surfaced as the session's error
C11_Witness ==
  /\ opts.maxRetries = MaxBudget /\ emitted.retry = MaxBudget /\ last.retry = MaxBudget
  /\ emitted.error = 1 /\ last.error = StatusError(429)
  /\ emitted.request = MaxBudget + 1

(***************************************************************************)
(* Cancellation: stream.destroy().                                         *)
(***************************************************************************)
\* C12: from the call of destroy() on, in whatever state it is called, no
\* byte is written to the stream (no data event), the stream does not emit
\* 'end', and no 'response' event is emitted: a response that arrives
\* afterwards is ignored
C12_NothingAfterCancel ==
  [][destroyed' => /\ output' = output
                   /\ emitted'.end = emitted.end
                   /\ emitted'.response = emitted.response]_vars

\* C12: a response has arrived for a request of a cancelled session
C12_Witness ==
  /\ destroyed /\ emitted.response = 0 /\ emitted.end = 0 /\ emitted.error = 0
  /\ redirects = 0 /\ retries = 0 /\ output = <<>>
  /\ \E id \in Requests : net[id].res = "ignored" /\ net[id].req = "open"

\* a session cancelled after its response and a part of the body
CancelledMidBody ==
  /\ destroyed /\ emitted.response = 1 /\ emitted.end = 0
  /\ 0 < Len(output) /\ Len(output) < ResLen
  /\ net[activeResponse].res = "destroyed"

\* C13: cancelling is not reported as an error: from the call of destroy()
\* on, a session with a usable URL emits no 'error' event, the error of the
\* destroyed request (socket hang up) included
C13_NoErrorAfterCancel ==
  [][destroyed' /\ httpLib(url) => emitted'.error = emitted.error]_vars

\* C14: a cancelled session has no retry or reconnect timer pending: the
\* one pending when destroy() is called is cleared and none is set
\* afterwards; and once it has no timer it never has one again and issues
\* no request: the attempt that was scheduled never starts
C14_TimerCleared ==
  [][/\ destroyed' => \A t \in timers' : t.kind \notin {"retry", "reconnect"}
     /\ destroyed /\ timers = {} =>
          timers' = {} /\ emitted'.request = emitted.request /\ Len(net') = Len(net)]_vars

\* C14: a session cancelled during the delay of its first retry, the
\* attempt that was scheduled not started
C14_Witness ==
  /\ destroyed /\ timers = {} /\ retryTimeout.kind = "retry"
  /\ emitted.retry = 1 /\ emitted.request = 1 /\ Len(net) = 1
  /\ emitted.redirect = 0 /\ emitted.reconnect = 0 /\ emitted.error = 0

\* a session cancelled during the delay of a reconnect
CancelledBeforeReconnect ==
  /\ destroyed /\ timers = {} /\ retryTimeout.kind = "reconnect"
  /\ emitted.reconnect = 1 /\ emitted.request = 1 /\ emitted.error = 0

\* C15: in a cancelled session with the delay of a redirect pending, no
\* step creates a transport request or emits 'request': the redirected
\* attempt is never started
C15_RedirectCancelled ==
  [][destroyed /\ (\E t \in timers : t.kind = "redirect") =>
       Len(net') = Len(net) /\ emitted'.request = emitted.request]_vars

\* C16: cancelling is idempotent: on a session cancelled with abort(),
\* another abort() or destroy() changes nothing of the session and emits no
\* event, a second 'abort' included
C16_CancelIdempotent ==
  aborted /\ destroyed => abort(S) = S /\ destroy(S) = S

(***************************************************************************)
(* Construction.                                                           *)
(***************************************************************************)
\* C17: while the code that called Miniget runs, the stream it got has
\* emitted no 'request', 'response', 'error' (the one of an unusable URL
\* included) or other event of an attempt, no request has been created, and
\* the first attempt is scheduled
C17_FirstAttemptDeferred ==
  turn = "caller" =>
    /\ \E t \in timers : t.kind = "nextTick"
    /\ net = <<>> /\ activeRequest = 0 /\ output = <<>>
    /\ \A e \in Events \ {"abort"} : emitted[e] = 0

\* C17: the first attempt has run and reported the unusable URL
C17_Witness ==
  /\ turn = "loop" /\ timers = {} /\ net = <<>>
  /\ emitted.error = 1 /\ last.error = MinigetError("Invalid URL", NaN)
  /\ emitted.request = 0

(***************************************************************************)
(* Default options.                                                        *)
(***************************************************************************)
\* the merged options have the limits maxRedirects, maxRetries,
\* maxReconnects and the backoff inc and max
Limits(redirects_, retries_, reconnects_, inc, max) ==
  /\ opts.maxRedirects = redirects_ /\ opts.maxRetries = retries_
  /\ opts.maxReconnects = reconnects_
  /\ opts.backoff = [inc |-> inc, max |-> max]

\* the redirect response number n + 1 fails the session with 'Too many
\* redirects', and none before it does
FailsAfterRedirects(n) ==
  \A id \in Requests :
    Pending(id) =>
      \A res \in Answers(id, redirectStatusCodes) :
        LET s == AfterResponse(id, res)
        IN IF redirects = n
           THEN FatalWith(s, MinigetError("Too many redirects", NaN))
           ELSE res.location # "" => s.emitted.error = 0 /\ s.emitted.redirect = redirects + 1

Known(e) == e \in opts.acceptEncoding.names

\* the header lists its encodings separated by a comma and a space
Spaced(h) == \A i \in 1..Len(h) : h[i] = "," => i < Len(h) /\ h[i + 1] = " "

\* C19: the decoders piped after a response are the encodings its
\* Content-Encoding header lists that have a factory in opts.acceptEncoding,
\* the last listed first; an encoding without a factory adds no decoder and
\* no error; there is none without the header or without opts.acceptEncoding
C19_DecoderPipeline ==
  emitted.response > 0 =>
    /\ emitted.error = 0
    /\ decoders = IF opts.acceptEncoding.given
                  THEN reverse(SelectSeq(last.response, Known))
                  ELSE <<>>

\* the same for the headers that separate by a comma and a space
SpacedDecoderPipeline == Spaced(last.response) => C19_DecoderPipeline

\* the stream has ended without an error after one attempt only, whose
\* response carried a Content-Length
SingleAttemptCompleted ==
  ended /\ emitted.error = 0 /\ Len(net) = 1 /\ Truthy(contentLength)

\* C20 as claimed: a session that completes after a single attempt whose
\* response carried a Content-Length has downloaded = contentLength and has
\* emitted exactly one 'end', with range resume enabled or not
C20_SingleAttemptComplete ==
  SingleAttemptCompleted => downloaded = contentLength /\ emitted.end = 1

\* C20 as amended: such a session has emitted exactly one 'end' and has
\* downloaded at most contentLength; it has downloaded contentLength when
\* range resume is enabled and the method is not HEAD
C20_SingleAttemptEnd ==
  SingleAttemptCompleted =>
    /\ emitted.end = 1
    /\ downloaded <= contentLength
    /\ acceptRanges /\ opts.method # "HEAD" => downloaded = contentLength

\* C20: a GET with range resume enabled completed by its first attempt
C20_Witness ==
  /\ SingleAttemptCompleted /\ acceptRanges /\ opts.method = "GET"
  /\ opts.maxReconnects > 0 /\ emitted.reconnect = 0 /\ emitted.end = 1
  /\ downloaded = contentLength /\ Len(output) = contentLength

\* a GET without range resume completed short of contentLength
CompletedShort ==
  /\ SingleAttemptCompleted /\ ~acceptRanges /\ opts.method = "GET"
  /\ opts.maxReconnects = 0 /\ emitted.end = 1 /\ downloaded < contentLength

(***************************************************************************)
(* Fatal errors of one attempt.                                            *)
(***************************************************************************)
\* new MinigetError('Redirect status code given with no location', code)
NoLocationError(code) ==
  MinigetError("Redirect status code given with no location", code)

\* C21: a redirect response without a Location header, received while
\* redirects < maxRedirects, fails the session with the error 'Redirect
\* status code given with no location': the url is unchanged, no redirect
\* event is emitted, no timer is set, no request is made, and no handler of
\* the attempt remains that could start another one
C21_MissingLocationFatal ==
  \A id \in Requests :
    Pending(id) /\ redirects < opts.maxRedirects =>
      \A res \in Answers(id, redirectStatusCodes) :
        res.location = "" =>
          LET s == AfterResponse(id, res)
          IN /\ FatalWith(s, NoLocationError(res.statusCode))
             /\ s.emitted.error = 1
             /\ s.url = url
             /\ s.emitted.request = emitted.request
             /\ \A l \in s.listeners : l.of # id

\* C21: a session failed by a redirect without Location, within its budget
C21_Witness ==
  /\ emitted.error = 1 /\ last.error = NoLocationError(302)
  /\ opts.maxRedirects > 0 /\ redirects <= opts.maxRedirects
  /\ emitted.redirect = 0 /\ url = "http://a" /\ timers = {}
  /\ emitted.request = 1

\* the outcomes of a transform that make the attempt fail, with the error
\* each one makes the session emit
FailingTransforms == {Thrown, Falsy, Descriptor("file")}
TransformFailure(r) == IF r = Thrown THEN TransformError ELSE InvalidTransform

\* C22: when the transform throws, returns a falsy value or returns an
\* object whose protocol has no httpLib, the attempt emits one error, makes
\* no request, leaves retries as it is and emits no retry event, with a
\* retry left or not, and sets no timer; an object without a protocol is
\* requested with the httpLib of the url, one with a known protocol with
\* the httpLib of that protocol
C22_TransformFatal ==
  opts.transform /\ httpLib(url) /\ ~crashed =>
    \A t \in timers, b \in SpreadThrows :
      LET s0 == [S EXCEPT !.timers = @ \ {t}]
      IN /\ \A r \in FailingTransforms :
              LET s == doDownload(s0, b, r)
              IN /\ s.emitted.error = emitted.error + 1
                 /\ s.last.error = TransformFailure(r)
                 /\ Len(s.net) = Len(net) /\ s.emitted.request = emitted.request
                 /\ s.retries = retries /\ s.emitted.retry = emitted.retry
                 /\ s.reconnects = reconnects /\ s.emitted.reconnect = emitted.reconnect
                 /\ s.timers = {}
         /\ \A p \in {NoProtocol} \cup httpLibs :
              LET s == doDownload(s0, b, Descriptor(p))
              IN /\ Len(s.net) = Len(net) + 1
                 /\ s.emitted.error = emitted.error
                 /\ s.net[Len(s.net)].lib = IF p = NoProtocol THEN protocol(url) ELSE p

\* C22: a session failed by its transform in the attempt that follows a
\* retry, with no second retry
C22_Witness ==
  /\ opts.transform /\ opts.maxRetries = 1 /\ emitted.retry = 1 /\ retries = 1
  /\ emitted.error = 1 /\ last.error = InvalidTransform
  /\ emitted.request = 1 /\ Len(net) = 1 /\ timers = {}

\* new MinigetError(`Invalid URL: ${url}`)
InvalidURL == MinigetError("Invalid URL", NaN)

C24_TextSettles ==
  text.called =>
    /\ text.state = "resolved" <=> emitted.end > 0
    /\ text.state = "resolved" => text.value = output
    /\ text.state = "rejected" <=> emitted.error > 0
    /\ text.state = "rejected" => text.reason = last.error

\* the promise follows the first of 'end' and 'error' that the stream
\* emits, and the body it collects is what was written to the stream
TextFollowsFirst ==
  text.called =>
    /\ text.body = output
    /\ text.state = "pending" <=> emitted.end = 0 /\ emitted.error = 0
    /\ text.state = "resolved" => emitted.end > 0 /\ text.value = output
    /\ text.state = "rejected" => emitted.error > 0
    /\ text.state = "rejected" /\ emitted.error = 1 => text.reason = last.error

\* the promise is resolved with the whole resource after a reconnect
ResolvedAcrossAttempts ==
  /\ text.state = "resolved" /\ emitted.reconnect = 1
  /\ Len(text.value) = ResLen /\ Contiguous(text.value)

(***************************************************************************)
(* The choice between reconnect, retry and failure.                        *)
(***************************************************************************)
\* the attempt `id` has started streaming and bytes have been received
Started(id) ==
  /\ Live /\ id \in Requests /\ activeRequest = id /\ activeDecodedStream = id
  /\ downloaded > 0

\* in `s` the session has failed without deciding a reconnect or a retry
FailedOnce(s) ==
  /\ s.emitted.error = emitted.error + 1
  /\ s.emitted.reconnect = emitted.reconnect /\ s.reconnects = reconnects
  /\ s.emitted.retry = emitted.retry /\ s.retries = retries
  /\ s.timers = {}

\* C25 as claimed: when an 'error' interrupts an attempt that has received
\* bytes, with reconnects < maxReconnects, a reconnect is decided whenever
\* range resume is off or downloaded differs from contentLength
C25_ReconnectWithoutRanges ==
  \A id \in Requests :
    Started(id) /\ reconnects < opts.maxReconnects
    /\ (~acceptRanges \/ downloaded # contentLength) =>
      \A s \in AfterTransportError(id) : ReconnectedOnce(s)

\* C25 as amended: such an 'error' makes the session reconnect exactly when
\* range resume is on and downloaded differs from contentLength; with range
\* resume off, or with every byte received, it fails the session
C25_ReconnectNeedsRanges ==
  \A id \in Requests :
    Started(id) /\ reconnects < opts.maxReconnects =>
      \A s \in AfterTransportError(id) :
        IF acceptRanges /\ downloaded # contentLength
        THEN ReconnectedOnce(s)
        ELSE FailedOnce(s)

\* C25: a session without range resume failed by an interruption after its
\* first byte, its reconnect budget untouched
C25_Witness ==
  /\ opts.maxReconnects > 0 /\ ~acceptRanges /\ Truthy(contentLength)
  /\ 0 < downloaded /\ downloaded < contentLength
  /\ emitted.error = 1 /\ last.error = MinigetError("ECONNRESET", NaN)
  /\ emitted.reconnect = 0 /\ reconnects = 0 /\ emitted.retry = 0 /\ timers = {}

\* the states that an event of the request `id` or of its response leads to
AfterEvent(id) ==
  (IF AwaitsResponse(id) THEN {AfterResponse(id, res) : res \in Responses(id)} ELSE {})
  \cup AfterTransportError(id) \cup AfterEnd(id) \cup AfterClose(id)

\* in `s` a retry has been decided since the current state
Retried(s) == s.emitted.retry > emitted.retry \/ s.retries > retries

\* C26 as claimed: a retry is decided only in states where downloaded = 0
C26_RetryOnlyBeforeBytes ==
  \A id \in Requests : \A s \in AfterEvent(id) : Retried(s) => downloaded = 0

\* C26 as amended: a retry is decided only in states where no byte has been
\* received or no response is being streamed (activeDecodedStream is null,
\* as it is from a reconnect until the next response); an attempt that is
\* streaming and has received bytes never takes the retry branch
C26_RetryOnlyBeforeStream ==
  \A id \in Requests :
    /\ \A s \in AfterEvent(id) :
         Retried(s) => downloaded = 0 \/ activeDecodedStream = 0
    /\ Started(id) =>
         \A s \in AfterEvent(id) : ~Retried(s)

\* C26: a retry decided after a reconnect, with bytes received
C26_Witness ==
  /\ emitted.reconnect = 1 /\ reconnects = 1 /\ downloaded > 0
  /\ emitted.retry = 1 /\ retries = 1 /\ activeDecodedStream = 0
  /\ emitted.error = 0 /\ \E t \in timers : t.kind = "retry"

(***************************************************************************)
(* Counters.                                                               *)
(***************************************************************************)
\* C27: in every step redirects, reconnects and downloaded do not decrease;
\* retries decreases only in a step that emits reconnect, where it becomes
\* 0, reconnects grows by one and redirects, downloaded and contentLength
\* are unchanged; a step that emits redirect (or counts a redirect response)
\* changes neither retries nor reconnects
C27_Counters ==
  [][/\ redirects' >= redirects /\ reconnects' >= reconnects
     /\ downloaded' >= downloaded
     /\ retries' < retries =>
          /\ retries' = 0
          /\ emitted'.reconnect = emitted.reconnect + 1
          /\ reconnects' = reconnects + 1
          /\ redirects' = redirects /\ downloaded' = downloaded
          /\ contentLength' = contentLength
     /\ emitted'.redirect > emitted.redirect \/ redirects' > redirects =>
          retries' = retries /\ reconnects' = reconnects]_vars

\* C27: a reconnect has set retries back to 0 after one retry
C27_Witness ==
  /\ emitted.retry = 1 /\ retries = 0
  /\ emitted.reconnect = 1 /\ reconnects = 1 /\ downloaded > 0
  /\ \E t \in timers : t.kind = "reconnect"

(***************************************************************************)
(* contentLength and acceptRanges.                                         *)
(***************************************************************************)
\* C28 as claimed: once a response has been streamed, contentLength and
\* acceptRanges never change
C28_FixedByFirstResponse ==
  [][emitted.response > 0 =>
       contentLength' = contentLength /\ acceptRanges' = acceptRanges]_vars

\* C28 as amended: contentLength and acceptRanges never change once
\* contentLength is a positive number; until then range resume is off, and
\* they change only in a step that streams a response
C28_FixedByFirstLength ==
  [][/\ Truthy(contentLength) =>
          contentLength' = contentLength /\ acceptRanges' = acceptRanges
     /\ ~Truthy(contentLength') => ~acceptRanges'
     /\ contentLength' # contentLength \/ acceptRanges' # acceptRanges =>
          emitted'.response = emitted.response + 1]_vars

\* C28: the response of a reconnect, which carries the length of the rest,
\* has left the contentLength of the first response
C28_Witness ==
  /\ emitted.response = 2 /\ emitted.reconnect = 1 /\ emitted.retry = 0
  /\ opts.Range = NoRange /\ contentLength = ResLen /\ acceptRanges
  /\ 0 < downloaded /\ activeDecodedStream = 2

(***************************************************************************)
(* The request of an attempt.                                              *)
(***************************************************************************)
\* the start and end of the caller's Range header: 0 and open (NaN) when
\* the header is absent or malformed
BaseStart == IF opts.Range.kind = "bytes" THEN opts.Range.start ELSE 0
BaseEnd == IF opts.Range.kind = "bytes" THEN opts.Range.end ELSE NaN

\* the request that an attempt started now makes, if it makes one
Attempts ==
  IF crashed THEN {}
  ELSE {s \in {doDownload([S EXCEPT !.timers = @ \ {t}], b, r) :
                 t \in timers, b \in SpreadThrows, r \in Transformed} :
          Len(s.net) = Len(net) + 1}

\* C29: the request of every attempt carries the Range header
\* bytes=<BaseStart + downloaded>-<BaseEnd or nothing> if acceptRanges and
\* downloaded > 0, and the caller's own header (or none) otherwise
C29_RangeHeader ==
  \A s \in Attempts :
    s.net[Len(s.net)].range =
      IF acceptRanges /\ downloaded > 0
      THEN Bytes(BaseStart + downloaded, BaseEnd)
      ELSE opts.Range

\* C29: the attempt after a reconnect asks for the rest of the caller's
\* range bytes=1-<ResLen>
C29_Witness ==
  /\ opts.Range = Bytes(1, ResLen)
  /\ emitted.reconnect = 1 /\ downloaded > 0 /\ acceptRanges
  /\ Len(net) = 2 /\ net[2].req = "open"
  /\ net[2].range = Bytes(1 + downloaded, ResLen)

\* the options that the session reads for itself
EngineKeys ==
  {"maxRedirects", "maxRetries", "maxReconnects", "backoff", "transform",
   "acceptEncoding", "highWaterMark"}

\* C30: the options that the request of every attempt is made with hold
\* none of the session's own keys, and hold the caller's method and headers
C30_NoEngineKeys ==
  \A s \in Attempts :
    LET parsed == s.net[Len(s.net)].keys
    IN /\ parsed \cap EngineKeys = {}
       /\ "method" \in parsed
       /\ opts.Range # NoRange => "headers" \in parsed

(***************************************************************************)
(* Delays.                                                                 *)
(***************************************************************************)
\* the states that an event of the request `id` or of its response leads
\* to, the response carrying no Retry-After header
AfterPlainEvent(id) ==
  (IF AwaitsResponse(id)
   THEN {AfterResponse(id, res) : res \in {r \in Responses(id) : r.retryAfter = NoHeader}}
   ELSE {})
  \cup AfterTransportError(id) \cup AfterEnd(id) \cup AfterClose(id)

\* C31: absent a Retry-After header, a step that decides the k-th
\* consecutive retry (k the value of retries after the step, 1 <= k <=
\* maxRetries) schedules the next attempt min(k * backoff.inc, backoff.max)
\* ms later, never later than backoff.max; a step that decides a reconnect
\* schedules it min(backoff.inc, backoff.max) ms later, whatever reconnects
C31_BackoffDelay ==
  \A id \in Requests : \A s \in AfterPlainEvent(id) :
    /\ s.emitted.retry = emitted.retry + 1 =>
         /\ 1 <= s.retries /\ s.retries <= opts.maxRetries
         /\ s.retryTimeout =
              [kind |-> "retry",
               ms |-> Min(s.retries * opts.backoff.inc, opts.backoff.max)]
         /\ s.retryTimeout \in s.timers
         /\ s.retryTimeout.ms <= opts.backoff.max
    /\ s.emitted.reconnect = emitted.reconnect + 1 =>
         /\ s.retryTimeout =
              [kind |-> "reconnect", ms |-> Min(opts.backoff.inc, opts.backoff.max)]
         /\ s.retryTimeout \in s.timers

\* C31: the first retry after a reconnect waits backoff.max, the increment
\* being larger
C31_Witness ==
  /\ opts.backoff.inc > opts.backoff.max
  /\ emitted.reconnect = 1 /\ emitted.retry = 1 /\ retries = 1
  /\ timers = {[kind |-> "retry", ms |-> opts.backoff.max]}

\* C34: a redirect response with a Location, received within the budget,
\* emits the redirect event with the new URL and schedules the next attempt
\* s * 1000 ms later for Retry-After: s, 0 ms later without the header; the
\* step issues no request; while the timer is pending the session's url is
\* the one the redirect event carried, and the attempt that the timer
\* starts emits its request event then and asks for that URL
C34_RedirectDelay ==
  /\ \A id \in Requests :
       Pending(id) /\ redirects < opts.maxRedirects =>
         \A res \in Answers(id, redirectStatusCodes) :
           res.location # "" =>
             LET s == AfterResponse(id, res)
             IN /\ s.timers =
                     {[kind |-> "redirect",
                       ms |-> IF res.retryAfter = NoHeader THEN 0
                              ELSE res.retryAfter * 1000]}
                /\ s.url = res.location
                /\ s.emitted.redirect = emitted.redirect + 1
                /\ s.last.redirect = res.location
                /\ s.emitted.request = emitted.request /\ Len(s.net) = Len(net)
  /\ \A t \in timers :
       t.kind = "redirect" =>
         /\ url = last.redirect /\ emitted.redirect > 0
         /\ \A s \in Attempts :
              /\ s.net[Len(s.net)].url = last.redirect
              /\ ~destroyed => s.emitted.request = emitted.request + 1

\* C34: the attempt after a redirect has been issued, to the new URL, by the
\* timer of the redirect
C34_Witness ==
  /\ emitted.redirect = 1 /\ last.redirect = "http://b" /\ emitted.request = 2
  /\ Len(net) = 2 /\ net[2].url = "http://b" /\ net[2].req = "open"
  /\ emitted.error = 0 /\ ~destroyed

(***************************************************************************)
(* After the error event.                                                  *)
(***************************************************************************)
\* in `s` nothing has happened on the stream since the state `s0` but,
\* possibly, further error events
Silent(s0, s) ==
  /\ s.emitted.request = s0.emitted.request /\ Len(s.net) = Len(s0.net)
  /\ s.emitted.retry = s0.emitted.retry /\ s.emitted.reconnect = s0.emitted.reconnect
  /\ s.emitted.redirect = s0.emitted.redirect
  /\ s.emitted.end = s0.emitted.end /\ s.output = s0.output
  /\ s.timers \subseteq s0.timers

\* the session as an 'error' of the request `id` leaves it before what the
\* response has buffered is delivered
RequestFailed(id, message) ==
  onError([S EXCEPT !.net[id].req = "errored"], id, MinigetError(message, NaN), NaN)

CancelledBeforeStart == destroyed /\ destroyArgs = "set"

\* C37: a session cancelled before its first attempt has run never makes a
\* request of the transport and never emits the request event
C37_NoRequestAfterEarlyCancel ==
  CancelledBeforeStart => net = <<>> /\ emitted.request = 0

(***************************************************************************)
(* The number of attempts.                                                 *)
(***************************************************************************)
\* the redirect, retry and reconnect decisions taken so far
Decisions == emitted.redirect + emitted.retry + emitted.reconnect

\* C39: every request but the first, and every attempt scheduled, is owed
\* to one redirect, retry or reconnect decision; at most maxRedirects
\* redirects and maxReconnects reconnects are decided, and at most
\* maxRetries retries before the first reconnect and after each one; so a
\* session makes at most 1 + maxRedirects + maxReconnects + maxRetries *
\* (maxReconnects + 1) requests
C39_AttemptsBounded ==
  /\ Len(net) + Cardinality(timers) <= 1 + Decisions
  /\ emitted.request <= Len(net)
  /\ emitted.redirect <= opts.maxRedirects
  /\ emitted.reconnect <= opts.maxReconnects
  /\ emitted.retry <= opts.maxRetries * (emitted.reconnect + 1)
  /\ Len(net) <= 1 + opts.maxRedirects + opts.maxReconnects
                   + opts.maxRetries * (opts.maxReconnects + 1)

\* C39: a session with one retry and one reconnect has made its four
\* requests: the first, one after a retry, one after the reconnect, one
\* after the retry that followed it
C39_Witness ==
  /\ opts.maxRetries = 1 /\ opts.maxReconnects = 1 /\ opts.maxRedirects = 0
  /\ emitted.retry = 2 /\ emitted.reconnect = 1
  /\ Len(net) = 4 /\ emitted.request = 4

(***************************************************************************)
(* Termination.                                                            *)
(***************************************************************************)
\* every byte of the resource has been received with range resume on, and
\* no terminal event has occurred
Complete == Live /\ acceptRanges /\ downloaded = contentLength

\* C38: every session eventually emits a terminal event; in particular,
\* with range resume on, once contentLength bytes have been received the
\* stream is eventually ended, unless the session fails or is cancelled
\* (or an exception escapes one of its callbacks)
C38_CompleteEventuallyEnds == Complete ~> (Terminated \/ crashed)

(***************************************************************************)
(* The writers of the stream.                                              *)
(***************************************************************************)
\* in `s` a retry or a reconnect has been decided since the current state
Rescheduled(s) ==
  s.emitted.retry + s.emitted.reconnect > emitted.retry + emitted.reconnect

\* C33: at most one response is piped into the stream; none is while a
\* retry or reconnect timer is pending; and when an 'error' of the request
\* makes the session decide a retry or a reconnect, the response of that
\* attempt is no longer piped and writes nothing of what it has buffered
C33_SingleWriter ==
  /\ Cardinality(pipes) <= 1
  /\ \A t \in timers : t.kind \in {"retry", "reconnect"} => pipes = {}
  /\ \A id \in Requests, m \in RequestErrors :
       RequestEmits(id, "error") =>
         LET decided == RequestFailed(id, m)
         IN Rescheduled(decided) =>
              /\ \A p \in decided.pipes : p.src # id
              /\ \A n \in Buffered(id) : Flush(decided, id, n).output = decided.output

(***************************************************************************)
(* Decoders.                                                               *)
(***************************************************************************)
\* C36: an 'error' of any stage of the decoders of the attempt that is
\* streaming fails the session with that error: no retry, no reconnect, no
\* timer, no request
C36_DecoderErrorFatal ==
  \A id \in Requests : \A k \in net[id].wired :
    Live /\ activeDecodedStream = id /\ MayFailDecoding(id, k) =>
      FatalWith(AfterDecoderError(id, k), DecoderFailure)

\* the attempt `id` is in flight: the session awaits the response of its
\* request, or has a handler on the request or on the response
InFlight(id) ==
  \/ AwaitsResponse(id) /\ ~net[id].destroyed
  \/ \E l \in listeners : l.of = id

\* C32: at every state at most one attempt is in flight or scheduled: at
\* most one timer is pending, at most one attempt is in flight, and none is
\* while a timer is pending
C32_OneAttempt ==
  /\ Cardinality(timers) <= 1
  /\ Cardinality({id \in Requests : InFlight(id)}) <= 1
  /\ timers # {} => \A id \in Requests : ~InFlight(id)

\* the response `id` is delivering to the session: onData listens to it,
\* and it is piped, through its decoders, into the stream, which is open
Counted(id) ==
  /\ Live /\ Delivering(id) /\ L("res", id, "data") \in listeners
  /\ \E p \in pipes : p.src = id

\* the lengths of body that the response `id` may deliver next
Deliverable(id) == 1..(net[id].len - net[id].pos)

\* C40 as claimed: a 'data' event of a response adds to downloaded the
\* number of bytes that it adds to the stream
C40_CountsDecoded ==
  \A id \in Requests :
    Counted(id) =>
      \A n \in Deliverable(id) :
        LET s == AfterResponseData(id, n)
        IN s.downloaded - downloaded = Len(s.output) - Len(output)

\* C40 as amended: a 'data' event of a response adds to downloaded the
\* number of bytes the transport delivered, still encoded, whatever the
\* decoders make of them; the stream receives the bytes that the decoders
\* produce from them
C40_CountsReceived ==
  \A id \in Requests :
    Counted(id) =>
      \A n \in Deliverable(id) :
        LET s == AfterResponseData(id, n)
            first == BodyStart(net[id].range) + net[id].pos
        IN /\ s.downloaded = downloaded + n
           /\ s.output = output \o decoded(net[id].chain, [i \in 1..n |-> first + i - 1])
           /\ net[id].chain = <<>> => Len(s.output) = Len(output) + n

\* C40: one encoded byte has been received, and the decoder has written two
C40_Witness ==
  /\ Live /\ emitted.response = 1 /\ decoders = <<"gzip">>
  /\ downloaded = 1 /\ Len(output) = 2

====
